---- MODULE Spec2Model ----
(***************************************************************************)
(* Model of the web GameCanvas simulation core                            *)
(* (src/components/GameCanvas.tsx): the per-frame update, the frame loop, *)
(* the keyboard handlers and the debug crash hook.                        *)
(*                                                                         *)
(* Numbers are fixed point.  One km/h is SU speed units, one lane unit is *)
(* LU, one percent of energy is EU, one metre is DU and one depth unit is *)
(* ZU.  A product with a decimal constant is rounded down to the unit.    *)
(* Time is in whole milliseconds; every call of performance.now() within  *)
(* one frame returns the frame's timestamp.                               *)
(***************************************************************************)
EXTENDS Integers, Sequences, FiniteSets, TLC

VARIABLES
    car,            \* the carModel prop
    isRaceStarted,  \* the isRaceStarted prop
    now,            \* the clock (performance.now / frame timestamp), ms
    state,          \* gameState.current
    debugTrigger,   \* window.DEBUG_TRIGGER_CRASH
    tape,           \* the values Math.random() will return next
    gameOverCalls,  \* the onGameOver invocations of the race, in order
    progressCalls,  \* the onProgress invocations of the last frame
    ev,             \* what the last frame did (observation only)
    crashCause,     \* what began the crash in progress (observation only)
    ticks,          \* frames run so far
    inputs,         \* input events handled so far
    app,            \* the state of the App component (screen, lobby, countdown)
    service,        \* the MultiplayerService: its room channel's player list and sends
    engine          \* the state of the mobile useGameEngine hook

vars == <<car, isRaceStarted, now, state, debugTrigger, tape, gameOverCalls,
          progressCalls, ev, crashCause, ticks, inputs, app, service, engine>>

----------------------------------------------------------------------------
(* Bounds of the exploration *)

MaxTicks == 2
MaxInputs == 1
MaxTimers == 2
MaxCrashTicks == 70
MaxRematches == 1
MaxRoomEvents == 4
MaxEngineSteps == 3

----------------------------------------------------------------------------
(* Units *)

SU == 1200
LU == 100000
EU == 1000000
DU == 1000
ZU == 10

Min(a, b) == IF a < b THEN a ELSE b
Max(a, b) == IF a > b THEN a ELSE b
Abs(a) == IF a < 0 THEN -a ELSE a

----------------------------------------------------------------------------
(* Program constants *)

PLAYER_Z == 300
MaxDt == 50
LaneLimit == (75 * LU) \div 100
HitDepth == 120
PickupWidth == (70 * LU) \div 100
HazardWidth == (45 * LU) \div 100
ProjectileWidth == (50 * LU) \div 100
PickupEnergy == 25
RefuelEnergy == 25
CrashPenalty == 10
ShotCost == 2
ShotMinEnergy == 3
ShotInterval == 250
BroadcastInterval == 100
SpawnDelay == 2000
GracePeriod == 3000
CrashDuration == 1000
StopSpeed == 5
SpawnMinSpeed == 20
RespawnFlash == 60
DebugFlash == 120
ShakeFrames == 30
SpawnDepth == 3000
Setback == 50
StartLives == 3
ExplosionDraws == 80
DefaultRand == 990

EV == "Electric"
ICE == "Combustion"

\* CAR_MODELS rs6 and etron_gt
CarModels ==
    { [id |-> "rs6", type |-> ICE, speed |-> 85, handling |-> 70, accel |-> 80],
      [id |-> "etron_gt", type |-> EV, speed |-> 90, handling |-> 80, accel |-> 100] }

IsPickup(t) == t = "battery" \/ t = "fuel"

NoKeys == [left |-> FALSE, right |-> FALSE, up |-> FALSE, down |-> FALSE, shoot |-> FALSE]

KeyNames == {"left", "right", "up", "down", "shoot"}

\* gameState.current as the mount effect resets it; t is performance.now()
FreshState(t) ==
    [ isPlaying |-> TRUE, isGameOver |-> FALSE, isCrashing |-> FALSE,
      crashDriftDir |-> 0, gameOverReason |-> "CRASH",
      shakeTimer |-> 0, flashTimer |-> 0, crashTime |-> 0,
      speed |-> 0, score |-> 0, distance |-> 0, playerX |-> 0,
      energy |-> 100 * EU, zombiesKilled |-> 0, lives |-> StartLives,
      entities |-> <<>>, projectiles |-> <<>>,
      keys |-> NoKeys, lastTime |-> 0, lastShotTime |-> 0,
      startTime |-> t, entityCounter |-> 0 ]

\* what a frame records about itself
NoEvent ==
    [ ran |-> FALSE, dt |-> 0, debug |-> FALSE,
      energyStart |-> 0, livesStart |-> 0, crashingStart |-> FALSE,
      speedMoved |-> 0, endedBy |-> "none",
      drained |-> FALSE, energyBeforeDrain |-> 0, energyAfterDrain |-> 0,
      exhausted |-> FALSE, shot |-> FALSE, spawned |-> FALSE, draws |-> <<>>,
      moved |-> <<>>, px |-> 0, grace |-> FALSE, crashingBefore |-> FALSE,
      flashBefore |-> 0, energyBeforeHits |-> 0, energyAfterHits |-> 0,
      collected |-> 0, collided |-> FALSE, recovered |-> FALSE,
      speedAfter |-> 0,
      fired |-> <<>>, energyAtShot |-> 0, lastShotBefore |-> 0,
      crashingAtShot |-> FALSE, laneAtShot |-> 0,
      fireHeld |-> FALSE, energyAfterShot |-> 0, gap |-> 0,
      distanceStart |-> 0, killsStart |-> 0, debugEnded |-> FALSE,
      recoveredFrom |-> "none", flashAfterUpdate |-> 0,
      crashingAtSpawn |-> FALSE, storeAtSpawn |-> <<>>, counterAtSpawn |-> 0,
      tapeAtSpawn |-> <<>>, tapeAfterSpawn |-> <<>>, created |-> <<>>,
      storeAfterSpawn |-> <<>>,
      shots |-> <<>>, targets |-> <<>>, shotsAfter |-> <<>>, targetsAfter |-> <<>>,
      scoreBeforeShots |-> 0, speedStart |-> 0,
      keysHeld |-> NoKeys, distanceAtDrain |-> 0 ]

----------------------------------------------------------------------------
(* Math.random() *)

Rand(tp) == IF tp = <<>> THEN DefaultRand ELSE Head(tp)

Drop(tp, n) == IF n >= Len(tp) THEN <<>> ELSE SubSeq(tp, n + 1, Len(tp))

----------------------------------------------------------------------------
(* update(deltaTime), one step after the other.  A step takes and returns   *)
(* the record w: st is gameState.current, tape the random source, dbg the  *)
(* debug request flag, over and prog the callback invocations, ev the      *)
(* frame's observations, cause what began the crash in progress.           *)

\* the payload with the stored score (state.score) for the computed one
GameOverStatsStored(st, reason) ==
    [ score |-> st.distance \div DU + st.score,
      distance |-> st.distance \div DU,
      killCount |-> st.zombiesKilled,
      reason |-> reason ]

\* the payload of onGameOver
GameOverStats(st, reason) ==
    [ score |-> st.distance \div DU + st.zombiesKilled * 100,
      distance |-> st.distance \div DU,
      killCount |-> st.zombiesKilled,
      reason |-> reason ]

\* the decrement without its guard
DebugLivesUnguarded(lives) == lives - 1

\* "if (state.lives > 0) state.lives--" of the debug hook
DebugLives(lives) == IF lives > 0 THEN lives - 1 ELSE lives

\* the request left pending
KeepRequest(dbg) == dbg

\* "window.DEBUG_TRIGGER_CRASH = false"
ConsumeRequest(dbg) == FALSE

\* the E2E debug helper at the head of update
DebugHook(w) ==
    IF ~w.dbg THEN w
    ELSE LET w1 == [w EXCEPT !.dbg = ConsumeRequest(@), !.st.flashTimer = 0,
                             !.ev.debug = TRUE]
         IN IF w1.st.isGameOver THEN w1
            ELSE LET w2 == [w1 EXCEPT !.tape = Drop(@, ExplosionDraws),
                                      !.st.flashTimer = DebugFlash,
                                      !.st.speed = @ \div 2,
                                      !.st.lives = DebugLives(@)]
                 IN IF w2.st.lives <= 0
                    THEN [w2 EXCEPT !.st.isPlaying = FALSE,
                                    !.st.isGameOver = TRUE,
                                    !.over = Append(@, GameOverStats(w2.st, "CRASH")),
                                    !.ev.debugEnded = TRUE]
                    ELSE w2

\* HANDLING_SPEED * deltaTime, in lane units
SteerStep(c, speed, dt) ==
    (((c.handling * LU) \div 25000) * dt * (1000 + (speed * 2) \div SU)) \div 1000

\* the lane after the crash drift
DriftLane(x, dir, speed, dt) == x + dir * ((speed * dt * 20) \div SU)

\* the lane after steering: left first, then right, each clamped
SteerLane(x, keys, h) ==
    LET x1 == IF keys.left THEN Max(-LaneLimit, x - h) ELSE x
    IN IF keys.right THEN Min(LaneLimit, x1 + h) ELSE x1

Steering(w, c, dt) ==
    LET st == w.st
    IN [w EXCEPT !.st.playerX =
            IF ~st.isCrashing
            THEN SteerLane(st.playerX, st.keys, SteerStep(c, st.speed, dt))
            ELSE DriftLane(st.playerX, st.crashDriftDir, st.speed, dt)]

\* the target without the test of isRaceStarted
TargetSpeedUnstarted(c, keys, started) ==
    IF keys.up THEN (c.speed * 32 * SU) \div 10 ELSE 0

\* TARGET_SPEED
TargetSpeed(c, keys, started) ==
    IF keys.up /\ started THEN (c.speed * 32 * SU) \div 10 ELSE 0

\* a crashing car that keeps its speed
CrashSpeedHeld(speed) == speed

\* speed of a crashing car: decay, then the forced stop
CrashSpeed(speed) ==
    LET d == (speed * 94) \div 100
    IN IF d < StopSpeed * SU THEN d - SU \div 2 ELSE d

\* speed of a running car: brake, accelerate towards the target, or coast
DriveSpeed(c, speed, keys, target, dt) ==
    IF keys.down THEN speed - (8 * dt * SU) \div 100
    ELSE IF speed < target THEN speed + (c.accel * dt * SU) \div 1200
    ELSE IF speed > target THEN speed - (dt * SU) \div 100
    ELSE speed

\* metres (in DU) covered in dt at the given speed
Travel(speed, dt) == (speed * dt * 5) \div ((1000 * SU) \div DU)

\* flash timer countdown, acceleration / braking, distance
Movement(w, c, started, dt) ==
    LET st == w.st
        target == TargetSpeed(c, st.keys, started)
        s1 == IF st.isCrashing THEN CrashSpeed(st.speed)
              ELSE DriveSpeed(c, st.speed, st.keys, target, dt)
        s2 == IF s1 < 0 THEN 0 ELSE s1
    IN [w EXCEPT !.st.flashTimer = IF @ > 0 THEN @ - 1 ELSE @,
                 !.st.speed = s2,
                 !.st.distance = @ + Travel(s2, dt),
                 !.ev.speedMoved = s2]

\* the drain computed in whole percent
DrainWholePercent(speed, dt) == ((speed * dt) \div ((500000 * SU) \div EU)) \div EU

\* energy used in dt at the given speed
Drain(speed, dt) == (speed * dt) \div ((500000 * SU) \div EU)

EmptyReason(c) == IF c.type = EV THEN "EMPTY_BATTERY" ELSE "EMPTY_FUEL"

\* 2. Resources
Resources(w, c, dt, t) ==
    LET st == w.st
    IN IF ~st.isCrashing /\ st.speed > StopSpeed * SU
       THEN LET e1 == st.energy - Drain(st.speed, dt)
                w1 == [w EXCEPT !.st.energy = e1,
                                !.ev.drained = TRUE,
                                !.ev.energyBeforeDrain = st.energy,
                                !.ev.distanceAtDrain = st.distance,
                                !.ev.energyAfterDrain = e1]
            IN IF e1 <= 0
               THEN [w1 EXCEPT !.st.gameOverReason = EmptyReason(c),
                               !.st.isCrashing = TRUE,
                               !.st.crashTime = t,
                               !.cause = "exhaustion",
                               !.ev.exhausted = TRUE]
               ELSE w1
       ELSE w

\* the interval test with >= for >
CanShootInclusive(st, t) == t - st.lastShotTime >= ShotInterval /\ st.energy > ShotMinEnergy * EU

\* the shot is allowed
CanShoot(st, t) == t - st.lastShotTime > ShotInterval /\ st.energy > ShotMinEnergy * EU

\* 3. Shooting (EV only)
Shooting(w, c, t) ==
    LET st == w.st
        w0 == [w EXCEPT !.ev.energyAtShot = st.energy,
                        !.ev.lastShotBefore = st.lastShotTime,
                        !.ev.crashingAtShot = st.isCrashing,
                        !.ev.laneAtShot = st.playerX,
                        !.ev.fireHeld = st.keys.shoot,
                        !.ev.energyAfterShot = st.energy]
        new == [ id |-> st.entityCounter, type |-> "projectile",
                 lane |-> st.playerX, z |-> (PLAYER_Z + 100) * ZU,
                 active |-> TRUE, speed |-> st.speed + 150 * SU ]
    IN IF c.type = EV /\ st.keys.shoot /\ ~st.isCrashing /\ CanShoot(st, t)
       THEN [w0 EXCEPT !.st.lastShotTime = t,
                       !.st.energy = @ - ShotCost * EU,
                       !.st.projectiles = Append(@, new),
                       !.st.entityCounter = @ + 1,
                       !.ev.shot = TRUE,
                       !.ev.fired = <<new>>,
                       !.ev.energyAfterShot = st.energy - ShotCost * EU]
       ELSE w0

----------------------------------------------------------------------------
(* 4. Spawning.  Random values are thousandths: r stands for r / 1000.      *)

\* twice diffLevel = min(5, 1 + floor(distance / 1000) * 0.5)
DiffLevel2(distance) == Min(10, 2 + (distance \div DU) \div 1000)

\* Math.random() < spawnChance, spawnChance = 0.005 * diffLevel
ChancePasses(r, distance) == 2 * r < 5 * DiffLevel2(distance)

SpawnLane(r) ==
    IF r < 330 THEN -((80 * LU) \div 100) ELSE IF r < 660 THEN 0 ELSE (80 * LU) \div 100

\* Math.max(30, state.speed * (0.8 + Math.random() * 0.15))
TrafficSpeed(speed, r) == Max(30 * SU, (speed * (800 + (r * 150) \div 1000)) \div 1000)

TrafficVariant(r) ==
    IF r < 330 THEN "enemy_bmw" ELSE IF r < 660 THEN "enemy_merc" ELSE "enemy_toyota"

\* the same without the start delay
SpawnAllowedNoDelay(st, t) ==
    ~st.isCrashing /\ st.speed > SpawnMinSpeed * SU

\* not crashing, fast enough, past the start delay
SpawnAllowed(st, t) ==
    ~st.isCrashing /\ st.speed > SpawnMinSpeed * SU /\ t - st.startTime > SpawnDelay

\* the same at any depth
OverlapAnyDepth(entities, lane) ==
    \E i \in 1..Len(entities) : Abs(entities[i].lane - lane) < (50 * LU) \div 100

\* an entity near the horizon already holds the lane
Overlap(entities, lane) ==
    \E i \in 1..Len(entities) :
        entities[i].z > 2500 * ZU /\ Abs(entities[i].lane - lane) < (50 * LU) \div 100

\* the same with zombies for either engine
SpawnKindAnyEngine(c, speed, rSpeed, rKind, rVariant) ==
    IF rKind > 800
    THEN [ type |-> IF c.type = EV THEN "battery" ELSE "fuel",
           speed |-> (speed * 85) \div 100, variant |-> FALSE ]
    ELSE IF rKind < 400
    THEN [ type |-> "zombie", speed |-> (speed * 85) \div 100 + 15 * SU, variant |-> FALSE ]
    ELSE [ type |-> TrafficVariant(rVariant), speed |-> TrafficSpeed(speed, rSpeed),
           variant |-> TRUE ]

\* type and speed of the new entity, and whether the variant roll is drawn
SpawnKind(c, speed, rSpeed, rKind, rVariant) ==
    IF rKind > 800
    THEN [ type |-> IF c.type = EV THEN "battery" ELSE "fuel",
           speed |-> (speed * 85) \div 100, variant |-> FALSE ]
    ELSE IF c.type = EV /\ rKind < 400
    THEN [ type |-> "zombie", speed |-> (speed * 85) \div 100 + 15 * SU, variant |-> FALSE ]
    ELSE [ type |-> TrafficVariant(rVariant), speed |-> TrafficSpeed(speed, rSpeed),
           variant |-> TRUE ]

\* the rolls with the kind drawn before the lane
SpawnRollsKindFirst(tp) ==
    [ chance |-> Rand(tp), kind |-> Rand(Drop(tp, 1)), speed |-> Rand(Drop(tp, 2)),
      lane |-> Rand(Drop(tp, 3)), variant |-> Rand(Drop(tp, 4)) ]

\* the calls of Math.random() in the spawning step, in program order
SpawnRolls(tp) ==
    [ chance |-> Rand(tp), lane |-> Rand(Drop(tp, 1)), speed |-> Rand(Drop(tp, 2)),
      kind |-> Rand(Drop(tp, 3)), variant |-> Rand(Drop(tp, 4)) ]

Spawning(w0, c, t) ==
    LET st == w0.st
        w == [w0 EXCEPT !.ev.crashingAtSpawn = st.isCrashing,
                        !.ev.storeAtSpawn = st.entities,
                        !.ev.counterAtSpawn = st.entityCounter,
                        !.ev.tapeAtSpawn = w0.tape]
        r == SpawnRolls(w.tape)
    IN IF ChancePasses(r.chance, st.distance) /\ SpawnAllowed(st, t)
       THEN LET kind == SpawnKind(c, st.speed, r.speed, r.kind, r.variant)
                lane == SpawnLane(r.lane)
                used == IF kind.variant THEN 5 ELSE 4
                drawn == IF kind.variant
                         THEN <<"chance", "lane", "speed", "kind", "variant">>
                         ELSE <<"chance", "lane", "speed", "kind">>
                new == [ id |-> st.entityCounter, type |-> kind.type,
                         lane |-> lane, z |-> SpawnDepth * ZU,
                         speed |-> kind.speed, active |-> TRUE ]
                w1 == [w EXCEPT !.tape = Drop(@, used), !.ev.draws = drawn,
                                !.ev.tapeAfterSpawn = Drop(w.tape, used)]
            IN IF Overlap(st.entities, lane)
               THEN [w1 EXCEPT !.ev.storeAfterSpawn = st.entities]
               ELSE [w1 EXCEPT !.st.entities = Append(@, new),
                               !.st.entityCounter = @ + 1,
                               !.ev.spawned = TRUE,
                               !.ev.created = <<new>>,
                               !.ev.storeAfterSpawn = Append(st.entities, new)]
       ELSE [w EXCEPT !.tape = Drop(@, 1), !.ev.draws = <<"chance">>,
                      !.ev.tapeAfterSpawn = Drop(w.tape, 1),
                      !.ev.storeAfterSpawn = st.entities]

----------------------------------------------------------------------------
(* 5. Entity updates *)

MoveEntity(e, speed, dt) ==
    LET z1 == e.z - ((speed - e.speed) * dt * ZU) \div (10 * SU)
    IN [e EXCEPT !.z = z1,
                 !.active = @ /\ ~(z1 < -200 * ZU) /\ ~(z1 > 3500 * ZU)]

MoveProjectile(p, dt) ==
    LET z1 == p.z + (120 * dt * ZU) \div 10
    IN [p EXCEPT !.z = z1, !.active = @ /\ ~(z1 > 3000 * ZU)]

MoveAll(w, dt) ==
    LET st == w.st
    IN [w EXCEPT !.st.entities = [i \in 1..Len(@) |-> MoveEntity(@[i], st.speed, dt)],
                 !.st.projectiles = [i \in 1..Len(@) |-> MoveProjectile(@[i], dt)]]

----------------------------------------------------------------------------
(* 6. Collision detection *)

\* the comparison with <= for <
CheckHitInclusive(aLane, aZ, bLane, bZ, widthThreshold) ==
    Abs(aZ - bZ) <= HitDepth * ZU /\ Abs(aLane - bLane) <= widthThreshold

CheckHit(aLane, aZ, bLane, bZ, widthThreshold) ==
    Abs(aZ - bZ) < HitDepth * ZU /\ Abs(aLane - bLane) < widthThreshold

HitWidth(type) == IF IsPickup(type) THEN PickupWidth ELSE HazardWidth

IsGracePeriod(st, t) == t - st.startTime < GracePeriod

\* a hazard hit starts a crash
CrashAllowed(st, t) == ~IsGracePeriod(st, t) /\ ~st.isCrashing /\ st.flashTimer <= 0

\* the refill without the clamp
RefillUnclamped(energy) == energy + PickupEnergy * EU

\* energy after a pickup
Refill(energy) == Min(100 * EU, energy + PickupEnergy * EU)

\* the body of state.entities.forEach for entity i
CollideOne(w, i, t) ==
    LET st == w.st
        ent == st.entities[i]
    IN IF ~ent.active THEN w
       ELSE IF ~CheckHit(st.playerX, PLAYER_Z * ZU, ent.lane, ent.z, HitWidth(ent.type))
       THEN w
       ELSE IF IsPickup(ent.type)
       THEN [w EXCEPT !.st.entities[i].active = FALSE,
                      !.st.energy = Refill(@),
                      !.ev.collected = @ + 1]
       ELSE IF CrashAllowed(st, t)
       THEN [w EXCEPT !.st.isCrashing = TRUE,
                      !.st.crashTime = t,
                      !.st.crashDriftDir = IF st.playerX < ent.lane THEN -1 ELSE 1,
                      !.st.shakeTimer = ShakeFrames,
                      !.tape = Drop(@, ExplosionDraws),
                      !.cause = "collision",
                      !.ev.collided = TRUE]
       ELSE w

RECURSIVE CollideFrom(_, _, _)
CollideFrom(w, i, t) ==
    IF i > Len(w.st.entities) THEN w ELSE CollideFrom(CollideOne(w, i, t), i + 1, t)

PlayerCollisions(w, t) ==
    LET w0 == [w EXCEPT !.ev.moved = w.st.entities,
                        !.ev.px = w.st.playerX,
                        !.ev.grace = IsGracePeriod(w.st, t),
                        !.ev.crashingBefore = w.st.isCrashing,
                        !.ev.flashBefore = w.st.flashTimer,
                        !.ev.energyBeforeHits = w.st.energy]
        w1 == CollideFrom(w0, 1, t)
    IN [w1 EXCEPT !.ev.energyAfterHits = w1.st.energy]

\* the body of the inner forEach: projectile p against entity e
ShootOne(w, p, e) ==
    LET st == w.st
        prj == st.projectiles[p]
        ent == st.entities[e]
    IN IF ~ent.active \/ IsPickup(ent.type) THEN w
       ELSE IF CheckHit(prj.lane, prj.z, ent.lane, ent.z, ProjectileWidth)
       THEN [w EXCEPT !.st.projectiles[p].active = FALSE,
                      !.st.entities[e].active = FALSE,
                      !.tape = Drop(@, ExplosionDraws),
                      !.st.zombiesKilled = IF ent.type = "zombie" THEN @ + 1 ELSE @,
                      !.st.score = IF ent.type = "zombie" THEN @ ELSE @ + 500]
       ELSE w

RECURSIVE ShootFrom(_, _, _)
ShootFrom(w, p, e) ==
    IF p > Len(w.st.projectiles) THEN w
    ELSE IF e > Len(w.st.entities) THEN ShootFrom(w, p + 1, 1)
    ELSE IF e = 1 /\ ~w.st.projectiles[p].active THEN ShootFrom(w, p + 1, 1)
    ELSE ShootFrom(ShootOne(w, p, e), p, e + 1)

ProjectileCollisions(w) ==
    LET w0 == [w EXCEPT !.ev.shots = w.st.projectiles,
                        !.ev.targets = w.st.entities,
                        !.ev.scoreBeforeShots = w.st.score]
        w1 == ShootFrom(w0, 1, 1)
    IN [w1 EXCEPT !.ev.shotsAfter = w1.st.projectiles,
                  !.ev.targetsAfter = w1.st.entities]

\* only the entity store is filtered
PruneEntitiesOnly(w) ==
    [w EXCEPT !.st.entities = SelectSeq(@, LAMBDA e : e.active)]

\* state.entities.filter(e => e.active), state.projectiles.filter(p => p.active)
Prune(w) ==
    [w EXCEPT !.st.entities = SelectSeq(@, LAMBDA e : e.active),
              !.st.projectiles = SelectSeq(@, LAMBDA q : q.active)]

----------------------------------------------------------------------------
(* Check End Game: the stopped car respawns or the race ends *)

\* the crash is over: the car has stopped and the crash has lasted long enough
CrashOver(st, t) == st.speed < StopSpeed * SU /\ t - st.crashTime > CrashDuration

\* the penalty whatever the reason
RespawnEnergyPenaltyOnly(reason, energy) == Max(0, energy - CrashPenalty * EU)

\* energy after a respawn: refuel after an exhaustion, penalty after a collision
RespawnEnergy(reason, energy) ==
    IF reason = "EMPTY_BATTERY" \/ reason = "EMPTY_FUEL"
    THEN RefuelEnergy * EU
    ELSE Max(0, energy - CrashPenalty * EU)

RespawnReason(reason) ==
    IF reason = "EMPTY_BATTERY" \/ reason = "EMPTY_FUEL" THEN "null" ELSE reason

\* the setback without the floor
PushBackUnclamped(distance) == distance - Setback * DU

\* "Push back slightly"
PushBack(distance) == Max(0, distance - Setback * DU)

\* the branch "if (state.lives > 0)": one life less, back on the road
Respawn(w) ==
    LET st == w.st
    IN [w EXCEPT !.st.lives = @ - 1,
                 !.st.isCrashing = FALSE,
                 !.st.speed = 0,
                 !.st.playerX = 0,
                 !.st.flashTimer = RespawnFlash,
                 !.st.energy = RespawnEnergy(st.gameOverReason, @),
                 !.st.gameOverReason = RespawnReason(@),
                 !.st.distance = PushBack(@),
                 !.cause = "none",
                 !.ev.recovered = TRUE,
                 !.ev.recoveredFrom = w.cause]

\* the else branch: the race ends
EndRace(w) ==
    [w EXCEPT !.st.isPlaying = FALSE,
              !.st.isGameOver = TRUE,
              !.over = Append(@, GameOverStats(w.st, w.st.gameOverReason)),
              !.ev.endedBy = w.cause]

CheckEndGame(w, t) ==
    IF w.st.isCrashing /\ CrashOver(w.st, t)
    THEN IF w.st.lives > 0 THEN Respawn(w) ELSE EndRace(w)
    ELSE w

\* Report Progress
ReportProgress(w) ==
    [w EXCEPT !.prog = Append(@,
        [ score |-> w.st.distance \div DU + w.st.zombiesKilled * 100,
          distance |-> w.st.distance \div DU,
          lives |-> w.st.lives ])]

\* update with the spawning step ahead of the integration
UpdateSpawnFirst(w, c, started, dt, t) ==
    IF ~w.st.isPlaying THEN w
    ELSE LET w1 == DebugHook([w EXCEPT !.ev.ran = TRUE,
                                       !.ev.energyStart = w.st.energy,
                                       !.ev.livesStart = w.st.lives,
                                       !.ev.distanceStart = w.st.distance,
                                       !.ev.killsStart = w.st.zombiesKilled,
                                       !.ev.speedStart = w.st.speed,
                                       !.ev.keysHeld = w.st.keys,
                                       !.ev.crashingStart = w.st.isCrashing])
             w2 == Spawning(w1, c, t)
             w3 == Steering(w2, c, dt)
             w4 == Movement(w3, c, started, dt)
             w5 == Resources(w4, c, dt, t)
             w6 == Shooting(w5, c, t)
             w7 == MoveAll(w6, dt)
             w8 == PlayerCollisions(w7, t)
             w9 == ProjectileCollisions(w8)
             w10 == Prune(w9)
             w11 == CheckEndGame([w10 EXCEPT !.ev.speedAfter = w10.st.speed], t)
         IN ReportProgress(w11)

\* update(deltaTime)
Update(w, c, started, dt, t) ==
    IF ~w.st.isPlaying THEN w
    ELSE LET w1 == DebugHook([w EXCEPT !.ev.ran = TRUE,
                                       !.ev.energyStart = w.st.energy,
                                       !.ev.livesStart = w.st.lives,
                                       !.ev.distanceStart = w.st.distance,
                                       !.ev.killsStart = w.st.zombiesKilled,
                                       !.ev.speedStart = w.st.speed,
                                       !.ev.keysHeld = w.st.keys,
                                       !.ev.crashingStart = w.st.isCrashing])
             w2 == Steering(w1, c, dt)
             w3 == Movement(w2, c, started, dt)
             w4 == Resources(w3, c, dt, t)
             w5 == Shooting(w4, c, t)
             w6 == Spawning(w5, c, t)
             w7 == MoveAll(w6, dt)
             w8 == PlayerCollisions(w7, t)
             w9 == ProjectileCollisions(w8)
             w10 == Prune(w9)
             w11 == CheckEndGame([w10 EXCEPT !.ev.speedAfter = w10.st.speed], t)
         IN ReportProgress(w11)

----------------------------------------------------------------------------
(* loop(time): the frame driver *)

\* the difference without the cap
FrameDtUncapped(time, lastTime) == time - lastTime

\* dt = Math.min(time - lastTime, 50)
FrameDt(time, lastTime) == Min(time - lastTime, MaxDt)

\* the part of loop after update: screen shake and the red flash
Draw(w) ==
    LET shaking == w.st.shakeTimer > 0
    IN [w EXCEPT !.st.shakeTimer = IF shaking THEN @ - 1 ELSE @,
                 !.tape = IF shaking THEN Drop(@, 2) ELSE @,
                 !.st.flashTimer = IF @ > 0 THEN @ - 1 ELSE @]

Loop(w, c, started, time) ==
    LET dt == FrameDt(time, w.st.lastTime)
        w1 == [w EXCEPT !.st.lastTime = time, !.ev.dt = dt,
                        !.ev.gap = time - w.st.lastTime]
        w2 == Update(w1, c, started, dt, time)
    IN Draw([w2 EXCEPT !.ev.flashAfterUpdate = w2.st.flashTimer])

----------------------------------------------------------------------------
(* Input handlers *)

\* a key-down handler without the test of isCrashing
KeyDownAlways(st, k) == [st EXCEPT !.keys[k] = TRUE]

\* handleKeyDown: ignored while crashing
KeyDownState(st, k) == IF st.isCrashing THEN st ELSE [st EXCEPT !.keys[k] = TRUE]

\* handleKeyUp
KeyUpState(st, k) == [st EXCEPT !.keys[k] = FALSE]

----------------------------------------------------------------------------
(* The App component (web: App.tsx, mobile: mobile/App.tsx with its          *)
(* LobbyScreen).  app.lobbyId and app.players are lobbyId / players on the  *)
(* web and activeLobbyId / roomPlayers of the LobbyScreen on mobile; the    *)
(* user is "me"; channel tells whether the multiplayer service holds a room *)
(* channel; timers counts the running countdown intervals; startedWith     *)
(* records, for the last START ENGINES press, the players then in the room; *)
(* user tells that a user is logged in (always, past the login screen);     *)
(* lastBroadcast is lastBroadcastRef.current; analysing holds the           *)
(* handleGameOver calls awaiting getPostRaceAnalysis; rivalOver is          *)
(* opponentState.isGameOver; race counts the rematches.                     *)

Platforms == {"web", "mobile"}

\* the player lists a room update may deliver (presence order is arbitrary)
Rooms ==
    { <<>>, <<"me">>, <<"rival">>, <<"me", "rival">>, <<"rival", "me">>,
      <<"me", "rival", "third">> }

\* the App after login, on the start screen
StartApp(pf) ==
    [ platform |-> pf, gameState |-> "START", isMultiplayer |-> FALSE,
      lobbyId |-> "", players |-> <<>>, channel |-> FALSE,
      countdown |-> 3, timers |-> 0, startedWith |-> <<>>,
      user |-> TRUE, lastBroadcast |-> 0, analysing |-> <<>>, rivalOver |-> FALSE,
      race |-> 0 ]

\* the MultiplayerService with no room traffic yet: currentPlayers of the
\* channel handlers, the list last passed to onUpdate, the broadcasts sent
\* and how many of their promises are unsettled; for observation, the last
\* player_update received for each id and the number of room events
IdleService ==
    [ currentPlayers |-> <<>>, delivered |-> <<>>, sent |-> <<>>, unsettled |-> 0,
      latest |-> [id \in {"me", "rival", "third"} |-> <<>>], events |-> 0 ]

\* gameState.current of the mobile hook as useRef constructs it (speed, lane,
\* energy, distance and depth in the units above), with the random source,
\* the onGameOver and onProgress invocations and the numbers of updatePhysics
\* and setInput calls so far
IdleEngine ==
    [ isPlaying |-> TRUE, isCrashing |-> FALSE, crashDriftDir |-> 0,
      gameOverReason |-> "CRASH", shakeTimer |-> 0, flashTimer |-> 0,
      speed |-> 0, score |-> 0, distance |-> 0, playerX |-> 0,
      energy |-> 100 * EU, zombiesKilled |-> 0, lives |-> 3, isGameOver |-> FALSE,
      entities |-> <<>>,
      keys |-> [k \in {"left", "right", "up", "down", "shoot", "handbrake", "horn"} |-> FALSE],
      entityCounter |-> 0,
      random |-> <<>>, over |-> <<>>, progress |-> <<>>, steps |-> 0, inputs |-> 0 ]

\* the web App around a solo race: counting down, or racing
RaceApp(started) ==
    [StartApp("web") EXCEPT !.gameState = IF started THEN "RACING" ELSE "COUNTDOWN",
                            !.countdown = IF started THEN 0 ELSE 3,
                            !.timers = IF started THEN 0 ELSE 1]

\* handleStartRaceSequence
StartSequence(a) ==
    [a EXCEPT !.gameState = "COUNTDOWN", !.countdown = 3, !.timers = @ + 1]

\* the interval callback of handleStartRaceSequence
CountdownStep(a) ==
    IF a.countdown <= 1
    THEN [a EXCEPT !.timers = @ - 1, !.gameState = "RACING", !.countdown = 0]
    ELSE [a EXCEPT !.countdown = @ - 1]

\* startGame: the Garage's onStartRace
StartGame(a) ==
    IF a.isMultiplayer
    THEN IF a.platform = "web" THEN [a EXCEPT !.gameState = "LOBBY"]
         ELSE [a EXCEPT !.gameState = "LOBBY", !.lobbyId = "", !.players = <<>>]
    ELSE IF a.platform = "web" THEN [a EXCEPT !.gameState = "RACING"]
         ELSE StartSequence(a)

\* joinLobby (createLobby joins the lobby it names): the user alone at first
JoinLobby(a) ==
    [a EXCEPT !.lobbyId = "ROOM", !.players = <<"me">>, !.channel = TRUE]

\* the START ENGINES button is rendered
StartShown(a) ==
    /\ a.gameState = "LOBBY"
    /\ a.lobbyId # ""
    /\ a.platform = "mobile" => (a.players # <<>> /\ a.players[1] = "me")

\* the button's disabled attribute
StartDisabled(a) ==
    IF a.platform = "web" THEN FALSE ELSE Len(a.players) < 2

\* the button's handler
StartEngines(a) ==
    [StartSequence(a) EXCEPT !.startedWith = <<Len(a.players)>>]

\* handleReturnToLobby (web)
ReturnToLobby(a) ==
    [a EXCEPT !.channel = IF a.isMultiplayer THEN FALSE ELSE @,
              !.lobbyId = "", !.players = <<>>, !.gameState = "START"]

\* handleLeaveLobby (mobile LobbyScreen)
LeaveLobby(a) ==
    [a EXCEPT !.channel = FALSE, !.lobbyId = "", !.players = <<>>]

----------------------------------------------------------------------------
(* The states a run starts from: the state after construction, and states   *)
(* of a race in progress (the race has run for MidTime ms).                 *)

MidTime == GracePeriod + SpawnDelay

Gaps == {16, 1100}

\* the same with no time passed, and around the cap of dt
CapGaps == {0, 16, 50, 51}

Held(S) == [k \in KeyNames |-> k \in S]

Lane(hundredths) == (hundredths * LU) \div 100

TopSpeed(c) == (c.speed * 32 * SU) \div 10

\* an entity of the store; z in depth units of 1 / ZU
Hazard(id, type, lane, z, speed) ==
    [ id |-> id, type |-> type, lane |-> lane, z |-> z, speed |-> speed,
      active |-> TRUE ]

PickupType(c) == IF c.type = EV THEN "battery" ELSE "fuel"

Start(c, started, t, st, tp) ==
    [ car |-> c, started |-> started, now |-> t, state |-> st, tape |-> tp ]

\* a race in progress: cruising past the grace period, nothing on the road
MidState(c) ==
    [FreshState(0) EXCEPT !.lastTime = MidTime, !.entityCounter = 5,
                          !.distance = 1500 * DU, !.energy = 60 * EU,
                          !.speed = 100 * SU, !.keys = Held({"up"}),
                          !.zombiesKilled = IF c.type = EV THEN 2 ELSE 0]

\* after construction
FreshStarts ==
    { Start(c, b, t, FreshState(t), <<>>) : c \in CarModels, b \in BOOLEAN, t \in {0, 400} }

\* just below the top speed, steering near the lane limit
CruiseStarts ==
    { Start(c, TRUE, MidTime,
            [MidState(c) EXCEPT !.speed = TopSpeed(c) - SU, !.keys = Held(k[1]),
                                !.playerX = Lane(k[2])], <<>>) :
        c \in CarModels,
        k \in { <<{"up"}, 0>>, <<{"up", "left"}, -74>>, <<{"up", "right"}, 74>>,
                <<{}, 0>>, <<{"down"}, 0>>, <<{"left", "right"}, 74>> } }

\* a traffic car next to the player past the grace period, in reach, at the
\* edge of the reach and out of it, with and without invulnerability (which
\* a car has only after it lost a life)
HazardStarts ==
    { Start(c, TRUE, MidTime,
            [MidState(c) EXCEPT !.entities = <<Hazard(3, "enemy_merc", Lane(h[1]), h[2], 85 * SU)>>,
                                !.flashTimer = f,
                                !.lives = IF f > 0 THEN 2 ELSE 3,
                                !.speed = IF f > 0 THEN 90 * SU ELSE 100 * SU], <<>>) :
        c \in {m \in CarModels : m.type = ICE},
        h \in { <<30, 3200>>, <<45, 3200>>, <<-44, 3000>>, <<0, 4457>>, <<0, 5000>> },
        f \in {0, 2} }

\* the same within the grace period and at its end: full throttle since the
\* start, the car spawned right after the start delay
GraceStarts ==
    { Start(c, TRUE, MidTime,
            [MidState(c) EXCEPT !.entities = <<Hazard(3, "enemy_merc", Lane(30), 4500, 110 * SU)>>,
                                !.startTime = MidTime - g,
                                !.speed = 198 * SU, !.distance = 1470 * DU], <<>>) :
        c \in {m \in CarModels : m.type = ICE}, g \in {2970, 2984, 2983} }

\* a pickup next to the player (in reach, and at the edge of the reach):
\* running, invulnerable, crashing, at the end of a crash, in the grace period
PickupStarts ==
    { Start(c, TRUE, MidTime,
            [MidState(c) EXCEPT !.entities = <<Hazard(3, PickupType(c), Lane(p), m.z, m.pickup * SU)>>,
                                !.energy = e * EU, !.flashTimer = m.flash,
                                !.lives = IF m.flash > 0 THEN 2 ELSE 3,
                                !.startTime = MidTime - m.since,
                                !.isCrashing = m.crashing,
                                !.crashTime = MidTime - m.crashed,
                                !.speed = m.speed,
                                !.distance = m.distance * DU], <<>>) :
        c \in CarModels, p \in {70, -69}, e \in {60, 90},
        m \in { [ flash |-> 0, since |-> MidTime, crashing |-> FALSE, crashed |-> MidTime,
                  speed |-> 100 * SU, pickup |-> 85, z |-> 3300, distance |-> 1500 ],
                [ flash |-> 2, since |-> MidTime, crashing |-> FALSE, crashed |-> MidTime,
                  speed |-> 90 * SU, pickup |-> 85, z |-> 3300, distance |-> 1500 ],
                [ flash |-> 0, since |-> MidTime, crashing |-> TRUE, crashed |-> 500,
                  speed |-> 100 * SU, pickup |-> 85, z |-> 3300, distance |-> 1500 ],
                [ flash |-> 0, since |-> MidTime, crashing |-> TRUE, crashed |-> 990,
                  speed |-> (52 * SU) \div 10, pickup |-> 85, z |-> 2000, distance |-> 1500 ],
                [ flash |-> 0, since |-> 2970, crashing |-> FALSE, crashed |-> MidTime,
                  speed |-> 198 * SU, pickup |-> 119, z |-> 4500, distance |-> 1470 ] } }

\* the energy is nearly used up (one value is used up exactly by a 16 ms
\* tick), with and without a pickup in reach
LowEnergyStarts ==
    { Start(c, TRUE, MidTime,
            [MidState(c) EXCEPT !.energy = IF e = 0 THEN Drain(200 * SU + c.accel * 16, 16) ELSE e,
                                !.speed = 200 * SU, !.lives = l,
                                !.entities = IF n THEN <<Hazard(3, PickupType(c), 0, 3300, 170 * SU)>>
                                             ELSE <<>>], <<>>) :
        c \in CarModels, e \in {10000, 0}, l \in {1, 3}, n \in BOOLEAN }

\* a crash about to end: after a collision or an exhaustion, with any number
\* of lives left (0 after three respawns; "null" after a recovered exhaustion);
\* an exhaustion right after a respawn (30 m covered) is still invulnerable
\* when the frames are slow
CrashStarts ==
    { Start(c, TRUE, MidTime,
            [MidState(c) EXCEPT !.isCrashing = TRUE, !.crashTime = MidTime - 990,
                                !.flashTimer = IF r[1] = "EMPTY" /\ q[2] = 30 THEN 40 ELSE 0,
                                !.speed = (52 * SU) \div 10, !.crashDriftDir = r[2],
                                !.gameOverReason = IF r[1] = "EMPTY" THEN EmptyReason(c) ELSE r[1],
                                !.lives = l,
                                !.energy = IF r[1] = "EMPTY" THEN 0 ELSE q[1] * EU,
                                !.distance = q[2] * DU, !.playerX = Lane(60) * r[2]], <<>>) :
        c \in CarModels,
        r \in { <<"CRASH", 1>>, <<"CRASH", -1>>, <<"EMPTY", 0>>, <<"null", 1>> },
        l \in 0..3, q \in { <<5, 1500>>, <<60, 30>> } }

\* a slow crash 984 ms old: a 16 ms frame finds the car under 5 km/h exactly
\* 1000 ms after the crash began
EarlyCrashStarts ==
    { Start(c, TRUE, MidTime,
            [MidState(c) EXCEPT !.isCrashing = TRUE, !.crashTime = MidTime - 984,
                                !.speed = (52 * SU) \div 10, !.crashDriftDir = 1,
                                !.gameOverReason = "CRASH", !.lives = l,
                                !.playerX = Lane(60)], <<>>) :
        c \in CarModels, l \in {0, 2} }

\* rolling at a little over 5 km/h with the energy nearly used up, or with a
\* hazard alongside and little energy: the crash that begins is over 1100 ms
\* later
SlowStarts ==
    { Start(c, TRUE, MidTime,
            [MidState(c) EXCEPT !.speed = (52 * SU) \div 10, !.keys = NoKeys,
                                !.energy = IF x = "exhaust" THEN 100 ELSE 5 * EU,
                                !.entities = IF x = "exhaust" THEN <<>>
                                             ELSE <<Hazard(3, "enemy_merc", Lane(20), 3000, 5 * SU)>>],
            <<>>) :
        c \in CarModels, x \in {"exhaust", "hit"} }

\* four 16 ms frames of full throttle after a respawn that left no energy
\* (a collision crash ended with energy under 10): still invulnerable, about
\* to pass 5 km/h
SpentStarts ==
    { Start(c, TRUE, MidTime,
            [MidState(c) EXCEPT !.speed = 4 * c.accel * 16, !.energy = 0,
                                !.flashTimer = RespawnFlash - 9, !.lives = 2,
                                !.gameOverReason = r,
                                !.distance = 1450 * DU], <<>>) :
        c \in CarModels, r \in {"CRASH", "null"} }

\* a crash at speed: the car drifts, the keys held at the crash stay held
DriftStarts ==
    { Start(c, TRUE, MidTime,
            [MidState(c) EXCEPT !.isCrashing = TRUE, !.crashTime = MidTime - 16,
                                !.keys = Held(k),
                                !.speed = 150 * SU, !.crashDriftDir = r,
                                !.shakeTimer = ShakeFrames - 1,
                                !.playerX = Lane(30) * r], <<>>) :
        c \in CarModels, r \in {-1, 1}, k \in { {"up"}, {"up", "shoot"} } }

\* an electric car firing: the last shot 100, 234 or 235 ms before the last
\* frame, its projectile in flight or gone, targets ahead
ShootStarts ==
    { Start(c, TRUE, MidTime,
            [MidState(c) EXCEPT !.keys = Held(k),
                                !.energy = IF e = 0 THEN 3 * EU + Drain(100 * SU + c.accel * 16, 16)
                                           ELSE e,
                                !.lastShotTime = MidTime - s,
                                !.projectiles = IF p THEN <<[Hazard(4, "projectile", 0, 11920, 250 * SU) EXCEPT !.speed = 250 * SU]>>
                                                ELSE <<>>,
                                !.entities = <<Hazard(2, "zombie", Lane(20), 13120, 100 * SU),
                                               Hazard(3, "enemy_bmw", Lane(-20), 13520, 100 * SU)>>],
            <<>>) :
        c \in {m \in CarModels : m.type = EV},
        k \in { {"up", "shoot"}, {"up"} }, e \in {60 * EU, 3 * EU + 10000, 0},
        s \in {100, 234, 235}, p \in BOOLEAN }

\* an electric car with a projectile in flight that a 16 ms frame takes to
\* depth 1384; one entity ahead keeps its depth in that frame: a zombie, a
\* car or a battery, 119.9 or 120 depth units beyond that point, or level
\* with it and 0.49999 or 0.5 lanes aside
TargetStarts ==
    { Start(c, TRUE, MidTime,
            [MidState(c) EXCEPT !.keys = Held({"up"}),
                                !.speed = 100 * SU,
                                !.lastShotTime = MidTime - 66,
                                !.projectiles = <<Hazard(4, "projectile", 0, 11920, 250 * SU)>>,
                                !.entities = <<Hazard(3, k, pos[1], 13840 + pos[2],
                                                      100 * SU + c.accel * 16)>>],
            <<>>) :
        c \in {m \in CarModels : m.type = EV},
        k \in {"zombie", "enemy_bmw", "battery"},
        pos \in { <<0, 1199>>, <<0, 1200>>, <<Lane(50) - 1, 0>>, <<Lane(50), 0>> } }

\* an electric car with a projectile that a 16 ms frame takes to depth 3000
\* or just beyond it, and a car 100 km/h faster than the player that the
\* frame takes to depth 3500 or just beyond it
ExitStarts ==
    { Start(c, TRUE, MidTime,
            [MidState(c) EXCEPT !.keys = Held({"up"}),
                                !.speed = 100 * SU,
                                !.lastShotTime = MidTime - 200,
                                !.projectiles = <<Hazard(4, "projectile", 0,
                                                         3000 * ZU - 1920 + d, 250 * SU)>>,
                                !.entities = <<Hazard(3, "enemy_bmw", Lane(60),
                                                      3500 * ZU - 1600 + d,
                                                      200 * SU + c.accel * 16)>>],
            <<>>) :
        c \in {m \in CarModels : m.type = EV}, d \in {0, 1} }

\* the races of a session: cruising, or crashed with no life left and about
\* to end
SessionStarts ==
    { Start(c, TRUE, MidTime, MidState(c), <<>>) : c \in CarModels }
    \cup { s \in CrashStarts : /\ s.state.lives = 0 /\ s.state.gameOverReason = "CRASH"
                                /\ s.state.distance = 1500 * DU /\ s.state.crashDriftDir = 1 }

\* traffic is due but for one condition: 16 ms short of the start delay,
\* 16 ms of throttle short of 20 km/h, crashing, or out of energy in the
\* coming tick
HeldSpawnStarts ==
    { Start(c, TRUE, MidTime,
            [MidState(c) EXCEPT !.startTime = IF x = "early" THEN MidTime - 1984 ELSE 0,
                                !.speed = IF x = "slow" THEN SpawnMinSpeed * SU - c.accel * 16
                                          ELSE 100 * SU,
                                !.isCrashing = (x = "crashing"),
                                !.crashTime = IF x = "crashing" THEN MidTime - 16 ELSE 0,
                                !.energy = IF x = "spent" THEN 100 ELSE 60 * EU],
            <<1, 500, 500, 500, 500>>) :
        c \in CarModels, x \in {"early", "slow", "crashing", "spent"} }

\* traffic is due in the centre lane, where a car is at depth 2500 or just
\* beyond it
HorizonStarts ==
    { Start(c, TRUE, MidTime,
            [MidState(c) EXCEPT !.entities = <<Hazard(3, "enemy_bmw", 0, z, 100 * SU)>>],
            <<1, 500, 500, 500, 500>>) :
        c \in CarModels, z \in {2500 * ZU, 2500 * ZU + 1} }

\* traffic is due: the chance roll passes; the lane may be taken
SpawnStarts ==
    { Start(c, TRUE, MidTime,
            [MidState(c) EXCEPT !.entities = IF o < 0 THEN <<>>
                                             ELSE <<Hazard(3, "enemy_bmw", Lane(o), 28000, 90 * SU)>>],
            tp) :
        c \in CarModels, o \in {-1, 0, 80},
        tp \in { <<1, 500, 500, 500, 500>>, <<1, 100, 0, 900, 1>>,
                 <<4, 900, 999, 100, 100, 1, 500, 500, 700, 900>>, <<24, 500, 0, 0, 0>>,
                 <<1, 500, 500, 800, 700>>, <<1, 500, 500, 801, 700>>,
                 <<1, 500, 500, 399, 700>>, <<1, 500, 500, 400, 329>> } }

\* a crash that has just begun at top speed, with one life or none left
FastCrashStarts ==
    { Start(c, TRUE, MidTime,
            [MidState(c) EXCEPT !.isCrashing = TRUE, !.crashTime = MidTime,
                                !.speed = TopSpeed(c), !.crashDriftDir = 1,
                                !.shakeTimer = ShakeFrames, !.lives = l], <<>>) :
        c \in CarModels, l \in {0, 1} }

Starts ==
    FreshStarts \cup CruiseStarts \cup HazardStarts \cup GraceStarts \cup PickupStarts
    \cup LowEnergyStarts \cup CrashStarts \cup EarlyCrashStarts \cup SlowStarts \cup SpentStarts
    \cup DriftStarts
    \cup ShootStarts \cup TargetStarts \cup ExitStarts \cup HeldSpawnStarts \cup HorizonStarts
    \cup SpawnStarts

\* the run starts from one of the given states
InitFrom(S) ==
    \E s \in S :
        /\ car = s.car
        /\ isRaceStarted = s.started
        /\ now = s.now
        /\ state = s.state
        /\ tape = s.tape
        /\ debugTrigger = FALSE
        /\ gameOverCalls = <<>>
        /\ progressCalls = <<>>
        /\ ev = NoEvent
        /\ crashCause = IF ~s.state.isCrashing THEN "none"
                        ELSE IF s.state.gameOverReason = EmptyReason(s.car) THEN "exhaustion"
                        ELSE "collision"
        /\ ticks = 0
        /\ inputs = 0
        /\ service = IdleService
        /\ engine = IdleEngine

Init == InitFrom(Starts) /\ app = RaceApp(isRaceStarted)

\* a fresh or a cruising car, for the runs that vary the frame times
TimingInit == InitFrom(FreshStarts \cup CruiseStarts) /\ app = RaceApp(isRaceStarted)

----------------------------------------------------------------------------
(* Actions *)

\* one animation frame of the canvas: loop(time) with time = now + gap
FrameRun(gap) ==
    /\ LET time == now + gap
           w == Loop([ st |-> state, tape |-> tape, dbg |-> debugTrigger,
                       over |-> gameOverCalls, prog |-> <<>>, ev |-> NoEvent,
                       cause |-> crashCause ],
                     car, isRaceStarted, time)
       IN /\ now' = time
          /\ state' = w.st
          /\ tape' = w.tape
          /\ debugTrigger' = w.dbg
          /\ gameOverCalls' = w.over
          /\ progressCalls' = w.prog
          /\ ev' = w.ev
          /\ crashCause' = w.cause
    /\ ticks' = ticks + 1
    /\ UNCHANGED <<car, isRaceStarted, inputs, engine>>

\* the frame of a solo race, where the App's onProgress handler sends nothing
FrameStep(gap) == FrameRun(gap) /\ UNCHANGED <<app, service>>

FrameAfter(gap) == ticks < MaxTicks /\ FrameStep(gap)

Frame == \E gap \in Gaps : FrameAfter(gap)

TimedFrame == \E gap \in CapGaps : FrameAfter(gap)

\* a keydown event
KeyDown ==
    /\ inputs < MaxInputs
    /\ \E k \in KeyNames : state' = KeyDownState(state, k)
    /\ inputs' = inputs + 1
    /\ UNCHANGED <<car, isRaceStarted, now, debugTrigger, tape, gameOverCalls,
                   progressCalls, ev, crashCause, ticks, app, service, engine>>

\* a keyup event
KeyUp ==
    /\ inputs < MaxInputs
    /\ \E k \in KeyNames : state' = KeyUpState(state, k)
    /\ inputs' = inputs + 1
    /\ UNCHANGED <<car, isRaceStarted, now, debugTrigger, tape, gameOverCalls,
                   progressCalls, ev, crashCause, ticks, app, service, engine>>

\* window.debugCrash()
DebugCrash ==
    /\ inputs < MaxInputs
    /\ debugTrigger' = TRUE
    /\ inputs' = inputs + 1
    /\ UNCHANGED <<car, isRaceStarted, now, state, tape, gameOverCalls,
                   progressCalls, ev, crashCause, ticks, app, service, engine>>

Next == Frame \/ KeyDown \/ KeyUp \/ DebugCrash

Spec == Init /\ [][Next]_vars

TimingNext == TimedFrame \/ KeyDown \/ KeyUp \/ DebugCrash

TimingSpec == TimingInit /\ [][TimingNext]_vars

\* a crash followed to its end: frames keep arriving, each later than the
\* last, for as long as the car is crashing; the first MaxTicks frames may be
\* slow and a debug request may arrive during them
CrashInit ==
    /\ InitFrom(FastCrashStarts \cup EarlyCrashStarts \cup SlowStarts)
    /\ app = RaceApp(isRaceStarted)

\* a frame is due: any frame while the crash lasts, slow ones among the first
\* MaxTicks only; before it, the one 16 ms frame in which a slow car's crash
\* begins
FrameDue(gap) ==
    IF state.isCrashing
    THEN ticks < MaxCrashTicks /\ (gap = 16 \/ ticks < MaxTicks)
    ELSE ticks = 0 /\ gap = 16

CrashFrame == state.isPlaying /\ \E gap \in Gaps : FrameDue(gap) /\ FrameStep(gap)

CrashDebug == state.isPlaying /\ state.isCrashing /\ ticks < MaxTicks /\ DebugCrash

CrashNext == CrashFrame \/ CrashDebug

\* the frames of a crashing car, told by the frame counter: every loop call
\* requests the next animation frame, so CrashFrame is taken again and again
\* while its guard holds
CrashTick ==
    /\ state.isPlaying /\ state.isCrashing
    /\ ticks < MaxCrashTicks
    /\ ticks' = ticks + 1

CrashSpec == CrashInit /\ [][CrashNext]_vars /\ WF_ticks(CrashTick)

----------------------------------------------------------------------------
(* The App's handlers.  The canvas effect depends on isRaceStarted          *)
(* (gameState === 'RACING'): when it changes, the effect runs again and     *)
(* resets gameState.current.                                                *)

\* the GameCanvas is rendered
Mounted(a) == a.gameState = "RACING" \/ a.gameState = "COUNTDOWN"

AppStep(a) ==
    LET started == a.gameState = "RACING"
        fresh == started # isRaceStarted \/ (Mounted(a) /\ ~Mounted(app))
    IN /\ app' = a
       /\ isRaceStarted' = started
       /\ state' = IF fresh THEN FreshState(now) ELSE state
       /\ gameOverCalls' = IF fresh THEN <<>> ELSE gameOverCalls
       /\ UNCHANGED <<car, now, debugTrigger, tape, progressCalls, ev, crashCause,
                      ticks, inputs, service, engine>>

\* SINGLE PLAYER / MULTIPLAYER on the start screen
ChooseMode ==
    /\ app.gameState = "START"
    /\ \E m \in BOOLEAN : AppStep([app EXCEPT !.isMultiplayer = m, !.gameState = "GARAGE"])

\* BACK in the garage
GarageBack ==
    /\ app.gameState = "GARAGE"
    /\ AppStep([app EXCEPT !.gameState = "START"])

\* the Garage starts the race
GarageStart ==
    /\ app.gameState = "GARAGE"
    /\ app.isMultiplayer \/ app.platform = "web" \/ app.timers < MaxTimers
    /\ AppStep(StartGame(app))

\* HOST RACE or JOIN in the lobby
EnterRoom ==
    /\ app.gameState = "LOBBY"
    /\ app.platform = "mobile" => app.lobbyId = ""
    /\ AppStep(JoinLobby(app))

\* the room's player list arrives (onUpdate of multiplayerService.joinLobby)
RoomUpdate ==
    /\ app.channel
    /\ app.platform = "mobile" => app.gameState = "LOBBY"
    /\ \E ps \in Rooms : AppStep([app EXCEPT !.players = ps])

\* the user presses START ENGINES
PressStart ==
    /\ StartShown(app)
    /\ ~StartDisabled(app)
    /\ app.timers < MaxTimers
    /\ AppStep(StartEngines(app))

\* the start_race broadcast of another player arrives
RemoteStart ==
    /\ app.channel
    /\ app.timers < MaxTimers
    /\ AppStep(StartSequence(app))

\* a countdown interval fires
CountdownTick ==
    /\ app.timers > 0
    /\ AppStep(CountdownStep(app))

\* LEAVE LOBBY (mobile, inside a room)
LeaveRoom ==
    /\ app.platform = "mobile"
    /\ app.gameState = "LOBBY"
    /\ app.lobbyId # ""
    /\ AppStep(LeaveLobby(app))

\* outside a room: BACK TO MENU (web), BACK (mobile), CHANGE CAR
LobbyBack ==
    /\ app.gameState = "LOBBY"
    /\ app.lobbyId = ""
    /\ \/ app.platform = "web" /\ AppStep(ReturnToLobby(app))
       \/ AppStep([app EXCEPT !.gameState = "GARAGE"])

\* handleGameOver
RaceOver ==
    /\ app.gameState = "RACING"
    /\ AppStep([app EXCEPT !.gameState = "GAMEOVER"])

\* LOBBY / MAIN MENU (web), onExit (mobile) on the game-over screen
LeaveGameOver ==
    /\ app.gameState = "GAMEOVER"
    /\ AppStep(IF app.platform = "web" THEN ReturnToLobby(app)
               ELSE [app EXCEPT !.gameState = "START"])

LobbyInit ==
    /\ InitFrom({ Start(c, FALSE, 0, FreshState(0), <<>>) : c \in CarModels })
    /\ \E pf \in Platforms : app = StartApp(pf)

LobbyNext ==
    \/ ChooseMode \/ GarageBack \/ GarageStart \/ EnterRoom \/ RoomUpdate
    \/ PressStart \/ RemoteStart \/ CountdownTick \/ LeaveRoom \/ LobbyBack
    \/ RaceOver \/ LeaveGameOver

LobbySpec == LobbyInit /\ [][LobbyNext]_vars

----------------------------------------------------------------------------
(* The room channel of MultiplayerService.joinLobby: its two handlers keep  *)
(* currentPlayers and pass a copy of it to onUpdate.                         *)

\* what a player_update may carry for the player it names
Snapshots ==
    { [score |-> 120, distance |-> 120, lives |-> 3, isGameOver |-> FALSE],
      [score |-> 450, distance |-> 350, lives |-> 0, isGameOver |-> TRUE] }

\* the entry of a player in currentPlayers
Player(id, snap) ==
    [ id |-> id, score |-> snap.score, distance |-> snap.distance,
      lives |-> snap.lives, isGameOver |-> snap.isGameOver ]

\* currentPlayers.findIndex(p => p.id === id), 0 for -1
FindIndex(players, id) ==
    IF \E i \in 1..Len(players) : players[i].id = id
    THEN CHOOSE i \in 1..Len(players) :
            players[i].id = id /\ \A j \in 1..(i - 1) : players[j].id # id
    ELSE 0

\* the 'presence' sync handler; keys are the keys of presenceState(), whose
\* payloads carry no score, distance, lives or isGameOver (p.score || 0,
\* p.distance || 0, p.lives ?? 3, p.isGameOver || false)
Synced(svc, keys) ==
    LET PresenceDefaults == [score |-> 0, distance |-> 0, lives |-> 3, isGameOver |-> FALSE]
        entry(id) ==
            LET idx == FindIndex(svc.currentPlayers, id)
            IN IF idx # 0 THEN Player(id, svc.currentPlayers[idx])
               ELSE Player(id, PresenceDefaults)
        list == [k \in 1..Len(keys) |-> entry(keys[k])]
    IN [svc EXCEPT !.currentPlayers = list, !.delivered = list]

\* the 'broadcast' player_update handler
Updated(svc, id, snap) ==
    LET idx == FindIndex(svc.currentPlayers, id)
        list == IF idx # 0 THEN [svc.currentPlayers EXCEPT ![idx] = Player(id, snap)]
                ELSE Append(svc.currentPlayers, Player(id, snap))
    IN [svc EXCEPT !.currentPlayers = list, !.delivered = list, !.latest[id] = <<snap>>]

\* a room event leaves all but the service as it was
RoomStep(svc) ==
    /\ service.events < MaxRoomEvents
    /\ service' = [svc EXCEPT !.events = @ + 1]
    /\ UNCHANGED <<car, isRaceStarted, now, state, debugTrigger, tape, gameOverCalls,
                   progressCalls, ev, crashCause, ticks, inputs, app, engine>>

\* a player_update of another player arrives (broadcast: { self: false })
PlayerUpdate ==
    \E id \in {"rival", "third"}, snap \in Snapshots : RoomStep(Updated(service, id, snap))

\* presence syncs: the user is tracked, others come and go
PresenceSync ==
    \E keys \in {r \in Rooms : \E i \in 1..Len(r) : r[i] = "me"} :
        RoomStep(Synced(service, keys))

\* the user has joined a room
RoomInit ==
    /\ InitFrom({ Start(c, FALSE, 0, FreshState(0), <<>>) : c \in CarModels })
    /\ app = JoinLobby([StartApp("web") EXCEPT !.isMultiplayer = TRUE, !.gameState = "LOBBY"])

RoomSpec == RoomInit /\ [][PlayerUpdate \/ PresenceSync]_vars

----------------------------------------------------------------------------
(* A multiplayer session on the web: the race, its snapshots, the rematch.  *)
(* x is the pair of the App's state and the service's.                      *)

\* multiplayerService.broadcastState: the send is not awaited by the caller
BroadcastState(svc, channel, msg) ==
    IF ~channel THEN svc
    ELSE [svc EXCEPT !.sent = Append(@, msg), !.unsettled = @ + 1]

\* the throttle with >= for >
DueInclusive(a, t) == t - a.lastBroadcast >= BroadcastInterval

\* now - lastBroadcastRef.current > 100
Due(a, t) == t - a.lastBroadcast > BroadcastInterval

\* handleProgress; at and race tell when and in which race the handler ran,
\* since how long before it the last snapshot had gone out (0 where unknown)
HandleProgress(x, p, t) ==
    IF x.app.isMultiplayer /\ x.app.user /\ Due(x.app, t)
    THEN [x EXCEPT !.service = BroadcastState(@, x.app.channel,
                                   [ id |-> "me", score |-> p.score, distance |-> p.distance,
                                     lives |-> p.lives, isGameOver |-> FALSE,
                                     by |-> "handleProgress", at |-> t, race |-> x.app.race,
                                     since |-> t - x.app.lastBroadcast ]),
                   !.app.lastBroadcast = t]
    ELSE x

\* handleGameOver up to its await of getPostRaceAnalysis
HandleGameOver(x, stats) ==
    [x EXCEPT !.app.gameState = "GAMEOVER",
              !.app.analysing = IF x.app.user
                                THEN Append(@, [stats |-> stats, race |-> x.app.race])
                                ELSE @]

\* handleGameOver after the await: Broadcast Final State
AfterAnalysis(x, i, t) ==
    LET call == x.app.analysing[i]
        rest == [j \in 1..(Len(x.app.analysing) - 1) |->
                    IF j < i THEN x.app.analysing[j] ELSE x.app.analysing[j + 1]]
    IN [x EXCEPT !.app.analysing = rest,
                 !.service = IF x.app.isMultiplayer /\ x.app.user
                             THEN BroadcastState(@, x.app.channel,
                                      [ id |-> "me", score |-> call.stats.score,
                                        distance |-> call.stats.distance,
                                        lives |-> 0, isGameOver |-> TRUE,
                                        by |-> "handleGameOver", at |-> t,
                                        race |-> call.race, since |-> 0 ])
                             ELSE @]

\* the callbacks of one frame, in the order update makes them: onGameOver
\* (debug hook, Check End Game), then onProgress
RECURSIVE Handled(_, _, _, _)
Handled(x, over, prog, t) ==
    IF over # <<>> THEN Handled(HandleGameOver(x, Head(over)), Tail(over), prog, t)
    ELSE IF prog # <<>> THEN Handled(HandleProgress(x, Head(prog), t), over, Tail(prog), t)
    ELSE x

\* a frame of the mounted canvas with the App's handlers
SessionFrame ==
    /\ Mounted(app)
    /\ ticks < MaxTicks
    /\ \E gap \in Gaps : FrameRun(gap)
    /\ LET x == Handled([app |-> app, service |-> service],
                        SubSeq(gameOverCalls', Len(gameOverCalls) + 1, Len(gameOverCalls')),
                        progressCalls', now')
       IN app' = x.app /\ service' = x.service

\* getPostRaceAnalysis resolves for one of the waiting handleGameOver calls
AnalysisDone ==
    /\ \E i \in 1..Len(app.analysing) :
          LET x == AfterAnalysis([app |-> app, service |-> service], i, now)
          IN app' = x.app /\ service' = x.service
    /\ UNCHANGED <<car, isRaceStarted, now, state, debugTrigger, tape, gameOverCalls,
                   progressCalls, ev, crashCause, ticks, inputs, engine>>

\* the promise of a channel.send settles
SendSettles ==
    /\ service.unsettled > 0
    /\ service' = [service EXCEPT !.unsettled = @ - 1]
    /\ UNCHANGED <<car, isRaceStarted, now, state, debugTrigger, tape, gameOverCalls,
                   progressCalls, ev, crashCause, ticks, inputs, app, engine>>

\* opponentState: the first player of the list who is not the user
HasRival(a) == \E i \in 1..Len(a.players) : a.players[i] # "me"

\* a room update brings the rival's game-over snapshot
RivalSnapshot ==
    /\ app.channel /\ HasRival(app)
    /\ ~app.rivalOver
    /\ AppStep([app EXCEPT !.rivalOver = TRUE])

\* the REMATCH / RACE AGAIN button is rendered and enabled
RematchShown(a) ==
    /\ a.gameState = "GAMEOVER"
    /\ ~(a.isMultiplayer /\ HasRival(a) /\ ~a.rivalOver)
    /\ ~(a.isMultiplayer /\ ~HasRival(a))

\* the state changes of the restart: the onRestartRace callback and the
\* local reset of handleRematch
Restarted(a) == [a EXCEPT !.gameState = "COUNTDOWN", !.countdown = 3, !.race = @ + 1]

\* handleRematch
HandleRematch(a) ==
    IF a.isMultiplayer /\ a.lobbyId # "" THEN Restarted(a)
    ELSE [a EXCEPT !.gameState = "GARAGE"]

Rematch ==
    /\ RematchShown(app)
    /\ app.race < MaxRematches
    /\ AppStep(HandleRematch(app))

\* the restart_race broadcast of the rival arrives
RestartSignal ==
    /\ app.channel
    /\ app.race < MaxRematches
    /\ AppStep(Restarted(app))

\* a race in progress, cruising or one frame from its end, solo or in a
\* room with a rival; the last snapshot went out 84 or 85 ms before the
\* last frame
SessionInit ==
    /\ InitFrom(SessionStarts)
    /\ \E multi \in BOOLEAN, ago \in {84, 85} :
          /\ multi \/ ago = 85
          /\ app = [RaceApp(TRUE) EXCEPT !.isMultiplayer = multi,
                                         !.lobbyId = IF multi THEN "ROOM" ELSE "",
                                         !.channel = multi,
                                         !.players = IF multi THEN <<"me", "rival">> ELSE <<>>,
                                         !.lastBroadcast = now - ago]

SessionNext ==
    \/ SessionFrame \/ AnalysisDone \/ SendSettles \/ RivalSnapshot
    \/ Rematch \/ RestartSignal \/ RemoteStart \/ CountdownTick \/ LeaveGameOver

\* a running interval timer goes on firing
SessionSpec == SessionInit /\ [][SessionNext]_vars /\ WF_vars(CountdownTick)

----------------------------------------------------------------------------
(* The mobile hook useGameEngine (src/mobile/src/hooks/useGameEngine.ts).   *)
(* e is gameState.current with the logs of IdleEngine; c is carModel.        *)

\* handleCollision(ent) for the entity at index i
HandleCollision(e, i) ==
    LET ent == e.entities[i]
        off == [e EXCEPT !.entities[i].active = FALSE]
        hit == [off EXCEPT !.isCrashing = TRUE,
                           !.crashDriftDir = IF Rand(e.random) > 500 THEN 1 ELSE -1,
                           !.random = IF e.random = <<>> THEN <<>> ELSE Tail(e.random),
                           !.flashTimer = 120,
                           !.lives = @ - 1,
                           !.shakeTimer = 20,
                           !.speed = e.speed \div 2]
    IN IF e.flashTimer > 0 THEN e
       ELSE IF IsPickup(ent.type)
       THEN [off EXCEPT !.energy = Min(100 * EU, e.energy + 30 * EU)]
       ELSE IF ent.type = "zombie"
       THEN [off EXCEPT !.zombiesKilled = @ + 1,
                        !.energy = Min(100 * EU, e.energy + 5 * EU)]
       ELSE IF e.speed > 50 * SU
       THEN IF hit.lives <= 0
            THEN [hit EXCEPT !.over = Append(@, [score |-> hit.score,
                                                 distance |-> hit.distance \div DU,
                                                 reason |-> "CRASH",
                                                 step |-> e.steps])]
            ELSE hit
       ELSE e

\* checkCollisions: the forEach over state.entities, from index i on
RECURSIVE CheckCollisions(_, _)
CheckCollisions(e, i) ==
    IF i > Len(e.entities) THEN e
    ELSE LET ent == e.entities[i]
             overlap == /\ ent.active
                        /\ ent.z < (PLAYER_Z + 50) * ZU
                        /\ ent.z > (PLAYER_Z - 50) * ZU
                        /\ Abs(ent.lane - e.playerX) < LU \div 2
         IN CheckCollisions(IF overlap THEN HandleCollision(e, i) ELSE e, i + 1)

\* updatePhysics, 1. Movement & Speed: steering or crash drift, handbrake
\* drag, acceleration, distance
EngineMove(e, c, started, dt) ==
    LET turn == IF e.keys.handbrake THEN (SteerStep(c, e.speed, dt) * 3) \div 2
                ELSE SteerStep(c, e.speed, dt)
        dragged == IF e.keys.handbrake THEN Max(0, (e.speed * 96) \div 100) ELSE e.speed
        speed == Max(0, IF e.isCrashing THEN CrashSpeed(e.speed)
                        ELSE DriveSpeed(c, dragged, e.keys,
                                        TargetSpeed(c, e.keys, started), dt))
    IN [e EXCEPT !.playerX = IF e.isCrashing
                             THEN DriftLane(@, e.crashDriftDir, e.speed, dt)
                             ELSE SteerLane(@, e.keys, turn),
                 !.speed = speed,
                 !.distance = @ + Travel(speed, dt)]

\* updatePhysics, 2. Resources: the drain grows with the distance; an empty
\* tank or battery ends the race
EngineResources(e, c, dt) ==
    LET energy == e.energy
                  - (((e.speed * dt) \div 360) * (20000 + e.distance \div DU)) \div 20000
    IN IF e.isCrashing \/ e.speed <= 5 * SU THEN e
       ELSE IF energy > 0 THEN [e EXCEPT !.energy = energy]
       ELSE [e EXCEPT !.energy = energy,
                      !.gameOverReason = EmptyReason(c),
                      !.isPlaying = FALSE,
                      !.isGameOver = TRUE,
                      !.over = Append(@, [score |-> e.distance \div DU + e.zombiesKilled * 100,
                                          distance |-> e.distance \div DU,
                                          reason |-> EmptyReason(c),
                                          step |-> e.steps])]

\* updatePhysics, 3. Spawning, with spawnEntity; rnd(k) is the k-th value
\* Math.random() returns from here on
EngineSpawn(e) ==
    LET rnd(k) == IF Len(e.random) >= k THEN e.random[k] ELSE DefaultRand
        spawns == rnd(1) * (50000 - Min(40000, e.distance \div DU)) < 1000000
        kind == <<"enemy_bmw", "enemy_merc", "enemy_toyota", "zombie", "battery", "fuel">>
                    [(rnd(2) * 6) \div 1000 + 1]
        enemy == kind \in {"enemy_bmw", "enemy_merc", "enemy_toyota"}
    IN IF ~spawns THEN [e EXCEPT !.random = SubSeq(@, 2, Len(@))]
       ELSE [e EXCEPT
               !.random = SubSeq(@, IF enemy THEN 5 ELSE 4, Len(@)),
               !.entityCounter = @ + 1,
               !.entities = Append(@,
                   [id |-> e.entityCounter + 1, type |-> kind,
                    lane |-> (2 * rnd(3) - 1000) * 8 * (LU \div 10000),
                    z |-> 3000 * ZU,
                    speed |-> IF enemy THEN (rnd(4) * 50 * SU) \div 1000 + 40 * SU ELSE 0,
                    active |-> TRUE])]

\* updatePhysics, 4. Update Entities and remove those out of bounds
EngineEntities(e, dt) ==
    LET closer(ent) == [ent EXCEPT !.z = @ - ((e.speed - ent.speed) * dt) \div ((20 * SU) \div ZU)]
        inBounds(ent) == ent.z > 0 /\ ent.z < 4000 * ZU
    IN [e EXCEPT !.entities =
            SelectSeq([i \in 1..Len(e.entities) |-> closer(e.entities[i])], inBounds)]

\* updatePhysics, 6. Score, Flash & Shake, Notify Progress; progress tells
\* whether onProgress was passed
EngineScore(e, progress) ==
    LET score == e.distance \div DU + e.zombiesKilled * 100
    IN [e EXCEPT
          !.score = score,
          !.flashTimer = IF @ > 0 THEN @ - 1 ELSE @,
          !.shakeTimer = IF @ > 0 THEN @ - 1 ELSE @,
          !.random = IF progress /\ @ # <<>> THEN Tail(@) ELSE @,
          !.progress = IF progress /\ Rand(e.random) < 100
                       THEN <<[score |-> score, lives |-> e.lives]>>
                       ELSE @]

\* updatePhysics(deltaTime)
UpdatePhysics(e, c, started, progress, dt) ==
    IF ~e.isPlaying THEN e
    ELSE EngineScore(
             CheckCollisions(
                 EngineEntities(
                     EngineSpawn(EngineResources(EngineMove(e, c, started, dt), c, dt)),
                     dt),
                 1),
             progress)

\* the owner of the hook calls updatePhysics from its frame loop
EngineTick ==
    /\ engine.steps < MaxEngineSteps
    /\ \E dt \in {16, 33} :
          engine' = [UpdatePhysics(engine, car, isRaceStarted, TRUE, dt)
                        EXCEPT !.steps = engine.steps + 1]
    /\ UNCHANGED <<car, isRaceStarted, now, state, debugTrigger, tape, gameOverCalls,
                   progressCalls, ev, crashCause, ticks, inputs, app, service>>

\* setInput(key, value)
EngineInput ==
    /\ engine.inputs < MaxInputs
    /\ \E k \in {"left", "up", "down", "handbrake"}, v \in BOOLEAN :
          engine' = [engine EXCEPT !.keys[k] = v, !.inputs = @ + 1]
    /\ UNCHANGED <<car, isRaceStarted, now, state, debugTrigger, tape, gameOverCalls,
                   progressCalls, ev, crashCause, ticks, inputs, app, service>>

\* the hook as constructed, or a race in progress at 200 km/h after 1000 m
\* with 1 to 3 lives left, the energy at 60 % or nearly used up, and
\* nothing, a car, two cars or a battery one frame ahead
EngineInit ==
    /\ car \in CarModels
    /\ isRaceStarted = TRUE
    /\ now = 0
    /\ state = FreshState(0)
    /\ tape = <<>>
    /\ debugTrigger = FALSE
    /\ gameOverCalls = <<>>
    /\ progressCalls = <<>>
    /\ ev = NoEvent
    /\ crashCause = "none"
    /\ ticks = 0
    /\ inputs = 0
    /\ app = [StartApp("mobile") EXCEPT !.gameState = "RACING"]
    /\ service = IdleService
    /\ \E tp \in {<<>>, <<5, 0, 500, 300, 600, 50>>} :
          \/ engine = [IdleEngine EXCEPT !.random = tp]
          \/ \E lives \in 1..3, energy \in {1000, 60 * EU}, n \in 0..2,
                kind \in {"enemy_bmw", "battery"} :
                engine = [IdleEngine EXCEPT
                            !.random = tp,
                            !.speed = 200 * SU,
                            !.distance = 1000 * DU,
                            !.score = 1000,
                            !.keys.up = TRUE,
                            !.lives = lives,
                            !.energy = energy,
                            !.entityCounter = n,
                            !.entities = [i \in 1..n |->
                                [id |-> i, type |-> kind, lane |-> 0,
                                 z |-> PLAYER_Z * ZU + 1150, speed |-> 60 * SU,
                                 active |-> TRUE]]]

EngineSpec == EngineInit /\ [][EngineTick \/ EngineInput]_vars

----------------------------------------------------------------------------
(* Claims *)

LastGameOver == gameOverCalls[Len(gameOverCalls)]

\* C1: a race ends on its third completed crash: the respawn that brings
\* lives to 0 stops the race and invokes onGameOver, the respawns before it
\* invoke nothing.
C1_RaceEndsOnThirdCrash ==
    ev.recovered =>
        IF state.lives = 0
        THEN ~state.isPlaying /\ Len(gameOverCalls) = 1
        ELSE gameOverCalls = <<>>

\* C2: onGameOver is invoked at most once per race.
C2_GameOverAtMostOnce == Len(gameOverCalls) <= 1

\* C3: after every tick the player lane lies in [-0.75, 0.75].
C3_LaneWithinLimits ==
    ev.ran => (state.playerX >= -Lane(75) /\ state.playerX <= Lane(75))

\* C4: after every tick 0 <= energy <= 100.
C4_EnergyWithinRange ==
    ev.ran => (state.energy >= 0 /\ state.energy <= 100 * EU)

\* C5: lives stays within 0..3 and never increases from one step to the next.
C5_LivesOnlyDecrease ==
    /\ state.lives \in 0..3
    /\ [][state'.lives \in 0..3 /\ state'.lives <= state.lives]_vars

\* C5 witness: a respawn has taken a life.
C5_LifeLost == ev.recovered /\ state.lives = ev.livesStart - 1 /\ state.lives \in 0..2

\* C6: the reason passed to onGameOver names what began the final crash:
\* CRASH for a collision, EMPTY_BATTERY / EMPTY_FUEL for an exhaustion.
C6_ReasonNamesFinalCrash ==
    /\ ev.endedBy = "collision" => LastGameOver.reason = "CRASH"
    /\ ev.endedBy = "exhaustion" =>
           LastGameOver.reason = (IF car.type = EV THEN "EMPTY_BATTERY" ELSE "EMPTY_FUEL")

\* an active hazard lies within 120 depth units and 0.45 lane units of the
\* player after the tick's movement
HazardInReach ==
    \E i \in 1..Len(ev.moved) :
        /\ ev.moved[i].active
        /\ ~IsPickup(ev.moved[i].type)
        /\ Abs(ev.moved[i].z - 300 * ZU) < 120 * ZU
        /\ Abs(ev.moved[i].lane - ev.px) < Lane(45)

\* C7: a collision crash starts in a tick exactly when a hazard is in reach,
\* the player is not crashing, not invulnerable and 3000 ms past race start.
C7_HazardStartsCrash ==
    ev.ran =>
        /\ ev.collided <=> ( /\ HazardInReach
                             /\ ~ev.crashingBefore
                             /\ ev.flashBefore <= 0
                             /\ now - state.startTime >= 3000 )
        /\ ev.collided => (state.isCrashing /\ state.crashTime = now)

\* C7 witness: a hazard in reach has started a crash.
C7_CrashStarted == ev.collided /\ HazardInReach /\ state.isCrashing

\* the pickups within 120 depth units and 0.7 lane units of the player
PickupsInReach ==
    { i \in 1..Len(ev.moved) :
        /\ ev.moved[i].active
        /\ IsPickup(ev.moved[i].type)
        /\ Abs(ev.moved[i].z - 300 * ZU) < 120 * ZU
        /\ Abs(ev.moved[i].lane - ev.px) < Lane(70) }

RECURSIVE Refilled(_, _)
Refilled(energy, n) ==
    IF n = 0 THEN energy ELSE Refilled(Min(100 * EU, energy + 25 * EU), n - 1)

C9_SpeedNeverExceedsTop ==
    (ev.ran /\ state.keys.up /\ isRaceStarted) => state.speed <= (car.speed * 32 * SU) \div 10

\* C10: in a tick with dt > 0 where the player is not crashing, speed > 5 and
\* no pickup is collected, energy strictly decreases; when it reaches 0 a
\* crash begins in that tick with the reason of the engine type.
C10_EnergyDrains ==
    (ev.ran /\ ev.dt > 0 /\ ~ev.crashingStart /\ ev.speedMoved > 5 * SU /\ ev.collected = 0) =>
        /\ state.energy < ev.energyStart
        /\ ev.energyAfterDrain <= 0 =>
               /\ ev.exhausted
               /\ state.isCrashing
               /\ crashCause = "exhaustion"
               /\ state.gameOverReason =
                      (IF car.type = EV THEN "EMPTY_BATTERY" ELSE "EMPTY_FUEL")

\* C10 witness: the energy ran out and the exhaustion crash began.
C10_Exhausted ==
    /\ ev.exhausted
    /\ ev.energyBeforeDrain > 0
    /\ state.energy <= 0
    /\ state.isCrashing
    /\ state.gameOverReason \in {"EMPTY_BATTERY", "EMPTY_FUEL"}

\* C11: a projectile is created in a tick exactly when the car is electric,
\* fire is held, the car is not crashing, more than 250 ms have passed since
\* the previous projectile was created and energy > 3; it costs 2 energy and
\* is created at the player's lane and depth PLAYER_Z + 100; a tick creates
\* at most one.
C11_ShotsRateLimited ==
    ev.ran =>
        /\ ev.shot <=> ( /\ car.type = EV
                         /\ ev.fireHeld
                         /\ ~ev.crashingAtShot
                         /\ now - ev.lastShotBefore > 250
                         /\ ev.energyAtShot > 3 * EU )
        /\ Len(ev.fired) = (IF ev.shot THEN 1 ELSE 0)
        /\ ev.shot =>
               /\ state.lastShotTime = now
               /\ ev.fired[1].lane = ev.laneAtShot
               /\ ev.fired[1].z = (300 + 100) * ZU
               /\ ev.energyAfterShot = ev.energyAtShot - 2 * EU
               /\ ev.energyBeforeHits = ev.energyAfterShot
        /\ ~ev.shot => state.lastShotTime = ev.lastShotBefore

\* C11 witness: fire is held by an electric car with energy to spare, the
\* previous projectile was created one frame (16 ms) ago and is in flight,
\* and this tick has created none.
C11_HeldFireOneShot ==
    /\ ev.ran /\ ~ev.shot
    /\ car.type = EV /\ ev.fireHeld /\ ~ev.crashingAtShot
    /\ ev.energyAtShot > 3 * EU
    /\ ev.lastShotBefore = now - 16
    /\ \E i \in 1..Len(state.projectiles) : state.projectiles[i].z = (300 + 100) * ZU + 2 * 16 * 12 * ZU

\* C12: once isPlaying is false, a frame leaves speed, distance, energy,
\* lives, lane, entities, projectiles, the crash state and the invulnerability
\* timer unchanged and invokes neither onGameOver nor onProgress.
C12_StoppedRaceIsFrozen ==
    [][(~state.isPlaying /\ ticks' = ticks + 1) =>
          /\ state'.speed = state.speed
          /\ state'.distance = state.distance
          /\ state'.energy = state.energy
          /\ state'.lives = state.lives
          /\ state'.playerX = state.playerX
          /\ state'.entities = state.entities
          /\ state'.projectiles = state.projectiles
          /\ state'.isCrashing = state.isCrashing
          /\ state'.crashTime = state.crashTime
          /\ state'.flashTimer = state.flashTimer
          /\ gameOverCalls' = gameOverCalls
          /\ progressCalls' = <<>>]_vars

\* C13: the dt a frame passes to update satisfies 0 <= dt <= 50, whatever
\* the time since the previous frame.
C13_DtWithinCap == ev.dt >= 0 /\ ev.dt <= 50

\* C13 witness: a frame more than 50 ms after the previous timestamp (0 for
\* the first frame) got dt = 50.
C13_GapCapped == ev.gap > 50 /\ ev.dt = 50 /\ ev.ran

\* C14: while isRaceStarted is false the player does not move: speed and
\* distance stay 0 and onProgress is given distance 0, whatever keys are held.
C14_NoMoveBeforeStart ==
    ~isRaceStarted =>
        /\ state.speed = 0
        /\ state.distance = 0
        /\ \A i \in 1..Len(progressCalls) : progressCalls[i].distance = 0

\* C14 witness: a tick with dt > 0 has run with the throttle held before the
\* race started, and has reported its progress.
C14_ThrottleBeforeStart ==
    /\ ~isRaceStarted
    /\ state.keys.up
    /\ ev.ran /\ ev.dt > 0
    /\ Len(progressCalls) = 1
    /\ state.speed = 0

\* C16: a tick that starts with the race playing invokes onProgress exactly
\* once, with (floor(distance + 100 * zombiesKilled), floor(distance), lives);
\* a tick that does not invokes nothing; the score given to onGameOver is
\* floor(distance + 100 * zombiesKilled) of the moment of the call.
C16_ProgressAndScore ==
    /\ ev.ran =>
           progressCalls = << [ score |-> state.distance \div DU + 100 * state.zombiesKilled,
                                distance |-> state.distance \div DU,
                                lives |-> state.lives ] >>
    /\ (~ev.ran /\ ticks > 0) => progressCalls = <<>>
    /\ \A i \in 1..Len(gameOverCalls) :
           gameOverCalls[i].score = gameOverCalls[i].distance + 100 * gameOverCalls[i].killCount
    /\ ev.endedBy # "none" =>
           /\ LastGameOver.distance = state.distance \div DU
           /\ LastGameOver.killCount = state.zombiesKilled
    /\ ev.debugEnded =>
           /\ gameOverCalls[1].distance = ev.distanceStart \div DU
           /\ gameOverCalls[1].killCount = ev.killsStart

\* C16 witness: a race with zombies killed has ended, and the tick has
\* reported the progress with the same score.
C16_ScoreWithKills ==
    /\ ev.endedBy # "none"
    /\ LastGameOver.killCount > 0
    /\ LastGameOver.distance > 0
    /\ Len(progressCalls) = 1
    /\ progressCalls[1].score = LastGameOver.score

\* C17: a tick of a running race that finds a debug-crash request consumes
\* it and takes exactly one life for it if lives > 0 (none if lives = 0); a
\* tick that finds no request takes no life for one.  The only other life
\* lost in a tick is the one a respawn takes.
C17_DebugCrashTakesOneLife ==
    [][(ticks' = ticks + 1 /\ state.isPlaying) =>
          LET respawn == IF ev'.recovered THEN 1 ELSE 0
          IN /\ debugTrigger =>
                    /\ ~debugTrigger'
                    /\ ev'.debug
                    /\ state'.lives = (IF state.lives > 0 THEN state.lives - 1 ELSE 0) - respawn
             /\ ~debugTrigger =>
                    /\ ~debugTrigger'
                    /\ ~ev'.debug
                    /\ state'.lives = state.lives - respawn]_vars

\* C17 witness: the tick after the one that served a debug-crash request at 3
\* lives (flashTimer 120, two less per frame): lives is still 2.
C17_RequestServedOnce ==
    /\ ticks = 2 /\ ev.ran /\ ~ev.debug /\ ~ev.recovered
    /\ state.flashTimer = 120 - 4
    /\ state.lives = 2
    /\ ~debugTrigger

\* C18: START ENGINES starts the race only with at least 2 players in the
\* room: it is disabled while fewer are there.
C18_StartNeedsTwoPlayers ==
    \A i \in 1..Len(app.startedWith) : app.startedWith[i] >= 2

\* C19: in a frame of a running race that starts with flashTimer > 0 and
\* neither respawns nor serves a debug crash, flashTimer decreases by exactly
\* 1 (so the 60 granted at respawn lasts 60 frames).
C19_FlashTimerOnePerFrame ==
    [][(ticks' = ticks + 1 /\ state.isPlaying /\ state.flashTimer > 0
          /\ ~ev'.debug /\ ~ev'.recovered) =>
          state'.flashTimer = state.flashTimer - 1]_vars

\* C20: in a tick that serves no debug crash, lives changes only by the one
\* life a crash takes when it ends (speed < 5 and more than 1000 ms after the
\* crash began, the car no longer crashing afterwards), and every crash that
\* ends, by a respawn or by the end of the race, takes that life.
C20_CrashTakesOneLife ==
    [][(ticks' = ticks + 1 /\ state.isPlaying /\ ~debugTrigger) =>
          /\ state'.lives # state.lives =>
                 /\ state.isCrashing
                 /\ state'.lives = state.lives - 1
                 /\ ev'.speedAfter < StopSpeed * SU
                 /\ now' - state.crashTime > CrashDuration
                 /\ ~state'.isCrashing
          /\ (state.isCrashing /\ (~state'.isCrashing \/ ~state'.isPlaying)) =>
                 state'.lives = state.lives - 1]_vars

\* C21: a respawn (the crash is over and lives remain) after an exhaustion
\* crash sets energy to 25, after a collision crash to max(0, energy - 10);
\* either way the car is running again: not crashing, speed 0, and update
\* leaves the invulnerability countdown at 60.
C21_RespawnEnergyAndState ==
    ev.recovered =>
        /\ ev.recoveredFrom \in {"exhaustion", "collision"}
        /\ ev.recoveredFrom = "exhaustion" => state.energy = 25 * EU
        /\ ev.recoveredFrom = "collision" =>
               state.energy = Max(0, ev.energyAfterHits - 10 * EU)
        /\ state.isPlaying
        /\ ~state.isCrashing
        /\ state.speed = 0
        /\ ev.flashAfterUpdate = 60

\* C21 witness: an exhaustion crash that began in this race has ended in a
\* respawn with energy 25.
C21_RefuelledAfterExhaustion ==
    /\ ev.recovered
    /\ ev.recoveredFrom = "exhaustion"
    /\ ticks = 2
    /\ ev.energyAfterHits <= 0
    /\ state.energy = 25 * EU
    /\ state.lives = 2

\* C22: distance is never negative; a frame with a respawn leaves it at
\* max(0, distance - 50), distance being the value the frame's movement
\* reached, and no other step lowers it.
C22_DistanceMonotone ==
    /\ state.distance >= 0
    /\ [][IF ticks' = ticks + 1 /\ ev'.recovered
          THEN state'.distance =
                   Max(0, state.distance + Travel(ev'.speedMoved, ev'.dt) - 50 * DU)
          ELSE state'.distance >= state.distance]_vars

\* C22 witness: a respawn 30 m into the race has put the car back at 0.
C22_SetBackToZero ==
    /\ ev.recovered
    /\ ev.distanceStart = 30 * DU
    /\ ev.speedMoved > 0 /\ ev.dt > 0
    /\ state.distance = 0

\* C23: in a tick that serves no debug crash, a crash (collision or
\* exhaustion) begins only if the car was not crashing and the invulnerability
\* countdown was not running, and after the tick isCrashing and
\* flashTimer > 0 do not hold together.
C23_OneWindowAtATime ==
    (ev.ran /\ ~ev.debug) =>
        /\ (ev.exhausted \/ ev.collided) => (~ev.crashingStart /\ ev.flashBefore <= 0)
        /\ ~(state.isCrashing /\ state.flashTimer > 0)

\* C24: with frames arriving at advancing times, every crash in a running
\* race ends: the car respawns (not crashing, a life fewer than at the start
\* of the frame) or the race is over (isPlaying false).
C24_CrashTerminates ==
    (state.isCrashing /\ state.isPlaying) ~>
        \/ ~state.isPlaying
        \/ ~state.isCrashing /\ ev.recovered /\ state.lives < ev.livesStart

\* C24 witness: a crash that began at top speed has ended in a respawn, 66
\* frames of decay later.
C24_StoppedFromTopSpeed ==
    /\ ev.recovered
    /\ ~state.isCrashing
    /\ ticks >= 66
    /\ state.lives = 0

\* the entities of the store after the step that were not in it before
Gained ==
    { j \in 1..Len(state'.entities) :
        \A i \in 1..Len(state.entities) : state.entities[i].id # state'.entities[j].id }

\* C25: the entity store gains an entity in a frame only if, at the spawn
\* step, the player is not crashing, speed > 20 and more than 2000 ms have
\* passed since the race start; it gains at most one, and none in any other
\* step.
C25_SpawnOnlyWhenAllowed ==
    [][/\ Gained # {} =>
              /\ ticks' = ticks + 1
              /\ ev'.spawned
              /\ ~ev'.crashingAtSpawn
              /\ ev'.speedMoved > 20 * SU
              /\ now' - state.startTime > 2000
       /\ Cardinality(Gained) <= 1]_vars

\* C25 witness: an entity was spawned at depth 3000 and is in the store after
\* the tick.
C25_Spawned ==
    /\ ev.spawned
    /\ ev.speedMoved > 20 * SU
    /\ now - state.startTime > 2000
    /\ \E j \in 1..Len(state.entities) :
           /\ state.entities[j].id = ev.counterAtSpawn
           /\ \A i \in 1..Len(ev.storeAtSpawn) : ev.storeAtSpawn[i].id # ev.counterAtSpawn

\* the k-th value Math.random() returns from the spawning step on
RollAt(k) == IF k <= Len(ev.tapeAtSpawn) THEN ev.tapeAtSpawn[k] ELSE 990

\* the chance roll passes and the spawn conditions hold
SpawnDue ==
    /\ ev.ran
    /\ 2 * RollAt(1) < 5 * Min(10, 2 + ((ev.distanceStart + Travel(ev.speedMoved, ev.dt)) \div DU) \div 1000)
    /\ ~ev.crashingAtSpawn
    /\ ev.speedMoved > 20 * SU
    /\ now - state.startTime > 2000

\* the kind roll selects a traffic car
TrafficRolled == ~(RollAt(4) > 800) /\ ~(car.type = EV /\ RollAt(4) < 400)

\* C26: when the chance roll passes and the spawn conditions hold, the
\* random values are used in the order chance, lane, speed, kind, and then
\* (for a traffic car only) variant: the second decides the lane, the third
\* the traffic speed, the fourth the kind, the fifth the variant, and the
\* step consumes five values for a traffic car and four otherwise.
C26_RollOrder ==
    SpawnDue =>
        /\ ev.tapeAfterSpawn = Drop(ev.tapeAtSpawn, IF TrafficRolled THEN 5 ELSE 4)
        /\ ev.spawned =>
               /\ Len(ev.created) = 1
               /\ ev.created[1].lane =
                      (IF RollAt(2) < 330 THEN -Lane(80) ELSE IF RollAt(2) < 660 THEN 0 ELSE Lane(80))
               /\ IsPickup(ev.created[1].type) <=> RollAt(4) > 800
               /\ ev.created[1].type = "zombie" <=> (car.type = EV /\ RollAt(4) < 400)
               /\ TrafficRolled =>
                      /\ ev.created[1].type =
                             (IF RollAt(5) < 330 THEN "enemy_bmw"
                              ELSE IF RollAt(5) < 660 THEN "enemy_merc" ELSE "enemy_toyota")
                      /\ ev.created[1].speed =
                             Max(30 * SU, (ev.speedMoved * (800 + (RollAt(3) * 150) \div 1000)) \div 1000)

\* C26 witness: five different-looking rolls (4, 900, 999, 100, 100) made a
\* BMW in the right lane at 94.985 % of the player speed.
C26_FiveRolls ==
    /\ SpawnDue /\ ev.spawned /\ TrafficRolled
    /\ Len(ev.tapeAtSpawn) = 10
    /\ ev.tapeAfterSpawn = <<1, 500, 500, 700, 900>>
    /\ ev.created[1].lane = Lane(80)
    /\ ev.created[1].type = "enemy_bmw"
    /\ ev.created[1].speed = (ev.speedMoved * 949) \div 1000

\* C27: the kind roll r of a spawn selects: r > 0.80 the pickup of the engine
\* type at 0.85 x player speed; in an electric race r < 0.4 a zombie at
\* 0.85 x player speed + 15; otherwise a traffic car of one of the three
\* variants.  No zombie and no battery is spawned in a combustion race, no
\* fuel in an electric race.
C27_KindRoll ==
    ev.spawned =>
        LET e == ev.created[1]
            r == RollAt(4)
        IN /\ r > 800 =>
                  /\ e.type = (IF car.type = EV THEN "battery" ELSE "fuel")
                  /\ e.speed = (ev.speedMoved * 85) \div 100
           /\ (r <= 800 /\ car.type = EV /\ r < 400) =>
                  /\ e.type = "zombie"
                  /\ e.speed = (ev.speedMoved * 85) \div 100 + 15 * SU
           /\ (r <= 800 /\ ~(car.type = EV /\ r < 400)) =>
                  e.type \in {"enemy_bmw", "enemy_merc", "enemy_toyota"}
           /\ car.type = ICE => e.type \notin {"zombie", "battery"}
           /\ car.type = EV => e.type # "fuel"

\* C27 witness: in an electric race the roll 0.399 made a zombie, 15 km/h
\* faster than 85 % of the player speed.
C27_ZombieSpawned ==
    /\ ev.spawned
    /\ car.type = EV
    /\ RollAt(4) = 399
    /\ ev.created[1].type = "zombie"
    /\ ev.created[1].speed = (ev.speedMoved * 85) \div 100 + 15 * SU

\* the lane the lane roll chooses
RolledLane == IF RollAt(2) < 330 THEN -Lane(80) ELSE IF RollAt(2) < 660 THEN 0 ELSE Lane(80)

\* an entity of the store at depth > 2500 is within 0.5 of the rolled lane
LaneTaken ==
    \E i \in 1..Len(ev.storeAtSpawn) :
        /\ ev.storeAtSpawn[i].z > 2500 * ZU
        /\ Abs(ev.storeAtSpawn[i].lane - RolledLane) < Lane(50)

\* C28: a due spawn is rejected exactly when an entity of the store lies at
\* depth > 2500 within 0.5 lane units of the rolled lane.  An accepted spawn
\* appends one entity at depth 3000 in lane -0.8, 0 or 0.8 with the next id,
\* and no other entity beyond depth 2500 is within 0.5 of it; a rejected
\* spawn leaves the store and the id counter as they were.
C28_NoOverlapAtSpawn ==
    SpawnDue =>
        /\ ev.spawned <=> ~LaneTaken
        /\ ev.spawned =>
               /\ ev.created[1].z = 3000 * ZU
               /\ ev.created[1].lane \in {-Lane(80), 0, Lane(80)}
               /\ ev.created[1].id = ev.counterAtSpawn
               /\ ev.storeAfterSpawn = Append(ev.storeAtSpawn, ev.created[1])
               /\ state.entityCounter = ev.counterAtSpawn + 1
               /\ \A i \in 1..Len(ev.storeAtSpawn) :
                      ~(/\ ev.storeAtSpawn[i].z > 2500 * ZU
                        /\ Abs(ev.storeAtSpawn[i].lane - ev.created[1].lane) < Lane(50))
        /\ ~ev.spawned =>
               /\ ev.storeAfterSpawn = ev.storeAtSpawn
               /\ state.entityCounter = ev.counterAtSpawn

\* C28 witness: a due spawn into the centre lane was rejected because of a
\* car there at depth 2500.1, and the id counter did not move.
C28_SpawnRejected ==
    /\ SpawnDue /\ LaneTaken /\ ~ev.spawned
    /\ RolledLane = 0
    /\ Len(ev.storeAtSpawn) = 1
    /\ ev.storeAtSpawn[1].z = 2500 * ZU + 1
    /\ state.entityCounter = ev.counterAtSpawn

\* the depth of entity e after a tick's movement at player speed v
MovedDepth(e, v, dt) == e.z - ((v - e.speed) * dt * ZU) \div (10 * SU)

\* the speed a spawn gives entity e when the player speed is v
SpawnSpeedAt(e, v) ==
    IF IsPickup(e.type) THEN (v * 85) \div 100
    ELSE IF e.type = "zombie" THEN (v * 85) \div 100 + 15 * SU
    ELSE Max(30 * SU, (v * (800 + (RollAt(3) * 150) \div 1000)) \div 1000)

\* C29: a tick runs integration, spawning, entity movement, collisions,
\* life/state transition in this order: a spawned entity takes its speed from
\* the player speed the tick has just computed; the store the collision step
\* sees is the store after spawning, every entity (the new one included)
\* moved by the tick's movement; crashes and pickups are decided on those
\* depths; and a respawn works on the energy the collisions left.
C29_StepOrder ==
    ev.ran =>
        /\ ev.spawned => ev.created[1].speed = SpawnSpeedAt(ev.created[1], ev.speedMoved)
        /\ Len(ev.moved) = Len(ev.storeAfterSpawn)
        /\ \A i \in 1..Len(ev.moved) :
               ev.moved[i].z = MovedDepth(ev.storeAfterSpawn[i], ev.speedMoved, ev.dt)
        /\ ev.collided => HazardInReach
        /\ ev.collected = Cardinality(PickupsInReach)
        /\ ev.recovered =>
               state.energy \in {25 * EU, Max(0, ev.energyAfterHits - 10 * EU)}

\* C29 witness: a hazard out of reach before the tick's movement (more than
\* 120 ahead) was in reach after it and started the crash.
C29_HitAfterMovement ==
    /\ ev.collided
    /\ Len(ev.moved) = 1
    /\ ev.storeAfterSpawn[1].z - 300 * ZU >= 120 * ZU
    /\ ev.moved[1].z - 300 * ZU < 120 * ZU
    /\ ev.speedMoved > 100 * SU

----------------------------------------------------------------------------
(* Projectile hits *)

\* projectile p and entity e as the projectile collision step finds them:
\* both active, e no pickup, less than 120 depth units and less than 0.5
\* lanes apart
InRange(p, e) ==
    /\ p.active /\ e.active /\ ~IsPickup(e.type)
    /\ Abs(p.z - e.z) < 120 * ZU
    /\ Abs(p.lane - e.lane) < Lane(50)

\* the entities of the frame that a projectile was in range of
ShotDown == { j \in 1..Len(ev.targets) :
                \E i \in 1..Len(ev.shots) : InRange(ev.shots[i], ev.targets[j]) }

ZombiesShot == { j \in ShotDown : ev.targets[j].type = "zombie" }

CarsShot == ShotDown \ ZombiesShot

\* a projectile and a target in range of each other are both inactive after
\* the step, nothing else is deactivated by it (pickups least of all), and
\* every zombie shot down adds one to the kill counter
HitsDeactivate ==
    ev.ran =>
        /\ \A i \in 1..Len(ev.shots) :
              ev.shotsAfter[i].active
                  = (ev.shots[i].active
                     /\ ~\E j \in 1..Len(ev.targets) : InRange(ev.shots[i], ev.targets[j]))
        /\ \A j \in 1..Len(ev.targets) :
              ev.targetsAfter[j].active = (ev.targets[j].active /\ j \notin ShotDown)
        /\ \A j \in 1..Len(ev.targets) :
              (IsPickup(ev.targets[j].type) /\ ev.targets[j].active)
                  => ev.targetsAfter[j].active
        /\ state.zombiesKilled = ev.killsStart + Cardinality(ZombiesShot)

\* C30: an active projectile less than 120 depth units and 0.5 lanes from an
\* active entity that is no pickup is deactivated with it in that tick; a
\* zombie shot down adds one to the kill counter, any other target shot down
\* adds to the score the player is given: the score reported after the tick
\* is above floor(distance) + 100 per kill; pickups are never hit
C30_ProjectileHits ==
    /\ HitsDeactivate
    /\ (ev.ran /\ CarsShot # {} /\ Len(progressCalls) = 1)
           => progressCalls[1].score
                  > progressCalls[1].distance + 100 * state.zombiesKilled

----------------------------------------------------------------------------
(* Coasting *)

\* a tick of a car that is not crashing with neither throttle nor brake held
Coasted ==
    /\ ev.ran /\ ~ev.crashingStart /\ ~ev.debug
    /\ ~ev.keysHeld.up /\ ~ev.keysHeld.down

\* C31: a tick with neither throttle nor brake held and the car not crashing
\* leaves the speed as it was
C31_CoastingHoldsSpeed == Coasted => ev.speedMoved = ev.speedStart

----------------------------------------------------------------------------
(* Energy drain and distance *)

\* the energy the Resources step of the last tick takes had the car been at
\* the given distance, all else equal (same speed, dt and energy)
DrainAt(distance) ==
    LET r == Resources([ st |-> [state EXCEPT !.isCrashing = FALSE,
                                              !.speed = ev.speedMoved,
                                              !.energy = ev.energyBeforeDrain,
                                              !.distance = distance],
                         ev |-> NoEvent, cause |-> "none" ],
                       car, ev.dt, now)
    IN r.ev.energyBeforeDrain - r.ev.energyAfterDrain

\* the start line and two marks further on, where behind the car
Behind == { d \in {0, 1000 * DU, 6000 * DU} : d < ev.distanceAtDrain }

\* C32: a tick of a moving car that is not crashing drains more energy than
\* a tick of the same speed and dt at a smaller distance
C32_DrainGrowsWithDistance ==
    ev.drained =>
        /\ ev.energyBeforeDrain - ev.energyAfterDrain = DrainAt(ev.distanceAtDrain)
        /\ \A d \in Behind : DrainAt(d) < ev.energyBeforeDrain - ev.energyAfterDrain

----------------------------------------------------------------------------
(* The entity and projectile stores *)

Ids(store) == { store[i].id : i \in 1..Len(store) }

\* ids grow along the store, which is in creation order
Ascending(store) ==
    \A i, j \in 1..Len(store) : i < j => store[i].id < store[j].id

\* both stores hold active members only, ids are unique, in creation order
\* and below the counter; what the last tick found or left inactive is gone
StoresClean ==
    /\ \A i \in 1..Len(state.entities) : state.entities[i].active
    /\ \A i \in 1..Len(state.projectiles) : state.projectiles[i].active
    /\ Ascending(state.entities) /\ Ascending(state.projectiles)
    /\ Ids(state.entities) \cap Ids(state.projectiles) = {}
    /\ \A n \in Ids(state.entities) \cup Ids(state.projectiles) : n < state.entityCounter
    /\ \A j \in 1..Len(ev.moved) :
          ~ev.moved[j].active => ev.moved[j].id \notin Ids(state.entities)
    /\ \A j \in 1..Len(ev.targetsAfter) :
          ~ev.targetsAfter[j].active => ev.targetsAfter[j].id \notin Ids(state.entities)
    /\ \A i \in 1..Len(ev.shotsAfter) :
          ~ev.shotsAfter[i].active => ev.shotsAfter[i].id \notin Ids(state.projectiles)

\* a member of a store after a step was there before it or is new, with an
\* id from the counter
NoneReturns ==
    /\ state'.entityCounter >= state.entityCounter
    /\ \A n \in Ids(state'.entities) :
          n \in Ids(state.entities) \/ n >= state.entityCounter
    /\ \A n \in Ids(state'.projectiles) :
          n \in Ids(state.projectiles) \/ n >= state.entityCounter

\* C33: after every tick both stores hold active members only; what a tick
\* deactivates (depth below -200 or above 3500, a collected pickup, a
\* projectile hit, a projectile beyond depth 3000) is removed in that tick
\* and never returns; ids are unique and increase in creation order
C33_OnlyActiveStored == [](StoresClean) /\ [][NoneReturns]_vars

\* C33 witness: a tick has shot a target down, and target and projectile are
\* gone from the stores
C33_ShotAndPruned ==
    /\ ev.ran /\ ShotDown # {}
    /\ \E j \in ShotDown : ev.targets[j].id \notin Ids(state.entities)
    /\ \E i \in 1..Len(ev.shots) :
          /\ ev.shots[i].active /\ ~ev.shotsAfter[i].active
          /\ ev.shots[i].id \notin Ids(state.projectiles)

----------------------------------------------------------------------------
(* Snapshots of a multiplayer race *)

\* the positions in service.sent of the snapshots handleProgress sent
ProgressSends == { i \in 1..Len(service.sent) : service.sent[i].by = "handleProgress" }

\* every snapshot of handleProgress went out more than 100 ms after the one
\* before it, and only from a multiplayer race with a user logged in
Throttled ==
    /\ \A i \in ProgressSends : service.sent[i].since > 100
    /\ \A i, j \in ProgressSends : i < j => service.sent[j].at - service.sent[i].at > 100
    /\ ProgressSends # {} => (app.isMultiplayer /\ app.user)

\* the tick that sends a snapshot ends with the send unsettled
SendNotAwaited ==
    (ticks' = ticks + 1 /\ Len(service'.sent) > Len(service.sent))
        => /\ service'.unsettled > service.unsettled
           /\ ev'.ran /\ progressCalls' # <<>>

\* C34: more than 100 ms lie between any two snapshots handleProgress sends,
\* it sends none unless the race is multiplayer and a user is logged in, and
\* the tick does not wait for the send
C34_BroadcastThrottled == [](Throttled) /\ [][SendNotAwaited]_vars

\* C34 witness: two snapshots of handleProgress are out, the second sent by a
\* tick that ran while the first send was unsettled
C34_TwoSnapshots ==
    /\ Cardinality(ProgressSends) = 2
    /\ service.unsettled = 2
    /\ ticks = 2

----------------------------------------------------------------------------
(* Countdown and rematch *)

\* C39: whenever the App shows COUNTDOWN (after the start-race sequence, a
\* local rematch or a received restart signal) it later shows RACING, the
\* countdown run down to 0
C39_CountdownEndsInRace ==
    (app.gameState = "COUNTDOWN") ~> (app.gameState = "RACING" /\ app.countdown = 0)

\* C40: the game-over snapshot of a race is never sent after a progress
\* snapshot of a later race
C40_NoStaleGameOver ==
    \A i, j \in 1..Len(service.sent) :
        (i < j /\ service.sent[j].by = "handleGameOver")
            => ~(service.sent[i].by = "handleProgress"
                 /\ service.sent[i].race > service.sent[j].race)

----------------------------------------------------------------------------
(* The room's player list *)

\* C35: the list passed to onUpdate has one entry per player id, and the
\* entry of a player shows score, distance, lives and isGameOver of the last
\* player_update received for that id
C35_MostRecentWins ==
    /\ \A i, j \in 1..Len(service.delivered) :
          i # j => service.delivered[i].id # service.delivered[j].id
    /\ \A i \in 1..Len(service.delivered) :
          LET e == service.delivered[i]
          IN service.latest[e.id] # <<>> => e = Player(e.id, service.latest[e.id][1])
----------------------------------------------------------------------------
(* The mobile engine's game over *)

----------------------------------------------------------------------------
(* One projectile, one target *)

\* the targets the tick's projectile collisions deactivated
TargetsDown ==
    { j \in 1..Len(ev.targets) : ev.targets[j].active /\ ~ev.targetsAfter[j].active }

\* the projectiles the tick's projectile collisions deactivated
ShotsSpent ==
    { i \in 1..Len(ev.shots) : ev.shots[i].active /\ ~ev.shotsAfter[i].active }

\* C37: a single projectile deactivates at most one entity: a tick's
\* projectile collisions deactivate no more entities than projectiles.
C37_OneTargetPerProjectile == Cardinality(TargetsDown) <= Cardinality(ShotsSpent)

----------------------------------------------------------------------------
(* Keys during a crash *)

\* a key-down event while crashing changes nothing
DownIgnored == (KeyDown /\ state.isCrashing) => state' = state

\* a key-up event clears its flag and no other, crashing or not
UpClears ==
    KeyUp => \E k \in KeyNames : state' = [state EXCEPT !.keys[k] = FALSE]

\* a frame, be it of a crash or the respawn, leaves the flags alone
FramesKeepKeys == ticks' # ticks => state'.keys = state.keys

\* C38: a key-down event received while isCrashing changes no input flag, a
\* key-up event always clears its flag, and the flags set before a crash stay
\* set through the crash and the respawn unless released.
C38_KeysUnderCrash == [][DownIgnored /\ UpClears /\ FramesKeepKeys]_vars

\* the car has respawned with the throttle still held, after a key event
C38_HeldThroughRespawn == ev.recovered /\ state.keys.up /\ inputs > 0

=============================================================================
